---- MODULE Spec2Model ----
(***************************************************************************)
(* Model of the worker payload channel of mediasoup's Rust host library    *)
(* (rust/src/worker/payload_channel.rs): the request registry, the         *)
(* outbound queue with its writer task, and the reader task that decodes   *)
(* responses and (notification, payload) pairs coming from the worker.     *)
(***************************************************************************)
EXTENDS Integers, Sequences, FiniteSets, TLC

VARIABLES
    next_id,       \* RequestsContainer.next_id, a u32 kept as two 16-bit limbs
    handlers,      \* RequestsContainer.handlers: id -> call owning the one-shot
    calls,         \* every request()/notify() call: its locals and position
    queue,         \* async_channel::bounded::<MessageWithPayload>(1) contents
    wpc,           \* writer task position
    wmsg,          \* message the writer task holds
    wire,          \* netstrings written to the host->worker payload pipe
    rpc,           \* reader task position
    rhold,         \* notification (or unexpected data) the reader task holds
    rlast,         \* what the reader task did with the last frame it took
    delivered,     \* calls of call_callbacks_with_value, in order
    internalQ,     \* async_channel::bounded(1) of InternalMessage
    innerDropped,  \* Inner was dropped (sender and internal receiver closed)
    nsLane,        \* framing: the channel whose tasks frame and deframe
    nsIn,          \* framing: the message handed to a writer task, or the bytes
                   \* the worker wrote
    nsPipe,        \* framing: the bytes in the pipe, not yet read
    nsLen,         \* framing: the length the reader task parsed
    nsOut,         \* framing: what the reader task made of the bytes
    nsPc,          \* framing: position of the writer and reader pair
    fdOf,          \* spawn: the RawFd each pipe end got from pipe()
    childFds,      \* spawn: the descriptor table of the forked child
    spawnPc,       \* spawn: position in spawn_with_worker_channels and its hook
    spawnResult,   \* spawn: how spawn_with_worker_channels ended for its caller
    parentFds,     \* spawn: the pipe ends open in the host process
    pureIn,        \* data structures: the value a function is applied to
    pureOut,       \* data structures: what the function returned
    purePc,        \* data structures: which function was applied last
    subs,          \* subscriptions: the callbacks added, in insertion order
    mutex,         \* registry mutex: the task that holds the guard, or Free
    lpc            \* registry mutex: where each task is relative to the guard

\* the state of the parts modelled further down, which the channel leaves alone
framing == << nsLane, nsIn, nsPipe, nsLen, nsOut, nsPc >>
spawning == << fdOf, childFds, spawnPc, spawnResult, parentFds >>
values == << pureIn, pureOut, purePc >>
locking == << mutex, lpc >>
apart == << framing, spawning, values, locking >>
elsewhere == << apart, subs >>

\* the state of the payload channel
channel == << next_id, handlers, calls, queue, wpc, wmsg, wire, rpc,
             rhold, rlast, delivered, internalQ, innerDropped >>

vars == << channel, elsewhere >>

\* what the framing steps and the spawn steps leave alone
notFraming == << channel, spawning, values, locking, subs >>
notSpawning == << channel, framing, values, locking, subs >>
notValues == << channel, framing, spawning, locking, subs >>
notLocking == << channel, framing, spawning, values, subs >>

----------------------------------------------------------------------------
(* Bounds of the model. *)

MaxCalls == 2        \* request()/notify() calls made in one behaviour
MaxDelivered == 2    \* notifications dispatched to subscribers in one behaviour
MaxNoteCalls == 1    \* request() calls made next to the reader fed with every frame
MaxShortLen == 3     \* length of the messages that are spelled out byte by byte
MaxSpareFds == 0     \* descriptor numbers free beyond the eight the pipes take
MaxBodyLen == 2      \* bytes the worker writes behind a length prefix, less one
MaxMsgLen == 2       \* characters of a string message, bytes of a binary message
MaxSubs == 2         \* subscriptions made on a channel
MaxRequesters == 2   \* tasks inside request_internal at the same time
MaxModeLen == 6      \* characters of a scalability mode before its suffix
MaxEditLen == 2      \* bytes of a serialized fingerprint replaced to make an input

(* Program constants. *)

NS_PAYLOAD_MAX_LEN == 4194304
U32Limb == 65536     \* a u32 is hi * 65536 + lo with hi, lo in 0..65535
QueueCap == 1        \* async_channel::bounded(1)
BaseTimeoutTenths == 150   \* 15.0 s, in tenths of a second

Calls == 1..MaxCalls

----------------------------------------------------------------------------
(* u32 arithmetic on limbs <<hi, lo>>. *)

U32Zero == << 0, 0 >>

\* u32::wrapping_add(x, 1)
wrapping_add(x) ==
    IF x[2] = U32Limb - 1
    THEN IF x[1] = U32Limb - 1 THEN U32Zero ELSE << x[1] + 1, 0 >>
    ELSE << x[1], x[2] + 1 >>

\* x - 1 modulo 2^32: the inverse of wrapping_add
wrapping_pred(x) ==
    IF x[2] = 0
    THEN IF x[1] = 0 THEN << U32Limb - 1, U32Limb - 1 >> ELSE << x[1] - 1, U32Limb - 1 >>
    ELSE << x[1], x[2] - 1 >>

----------------------------------------------------------------------------
(* HashMap<u32, Sender> operations. *)

\* HashMap::insert: an entry already under k is replaced
Insert(h, k, c) == [j \in DOMAIN h \cup {k} |-> IF j = k THEN c ELSE h[j]]

\* HashMap::get in the place of remove: the entry stays
KeepEntry(h, k) == h

\* HashMap::remove
Remove(h, k) == [j \in DOMAIN h \ {k} |-> h[j]]

\* the call whose one-shot sender is stored under k, as a set (empty: none)
Owner(h, k) == IF k \in DOMAIN h THEN {h[k]} ELSE {}

----------------------------------------------------------------------------
(* Inbound frame bodies.  A body is what serde sees: whether the bytes are  *)
(* JSON at all and, if so, which of the fields the untagged enum looks at   *)
(* are present.                                                             *)

NoId == << -1, -1 >>

NoBody == [json |-> FALSE, id |-> NoId, accepted |-> "absent", error |-> FALSE,
           reason |-> "absent", targetId |-> "absent", text |-> "none",
           data |-> "absent"]

\* {"id":k,"accepted":true,"data":{}}
SuccessBody(k) == [json |-> TRUE, id |-> k, accepted |-> "true", error |-> FALSE,
                   reason |-> "absent", targetId |-> "absent", text |-> "success",
                   data |-> "{}"]

\* {"id":k,"error":"TypeError","reason":"invalid interval"}
ErrorBody(k) == [json |-> TRUE, id |-> k, accepted |-> "absent", error |-> TRUE,
                 reason |-> "invalid interval", targetId |-> "absent", text |-> "error",
                 data |-> "absent"]

\* {"targetId":t,"event":"message","ppid":51}; t = "absent": no targetId field
NoteBody(t) == [json |-> TRUE, id |-> NoId, accepted |-> "absent", error |-> FALSE,
                reason |-> "absent", targetId |-> t, text |-> "note",
                data |-> "absent"]

\* bytes that are not JSON, such as the payload "hello"
RawBody == [json |-> FALSE, id |-> NoId, accepted |-> "absent", error |-> FALSE,
            reason |-> "absent", targetId |-> "absent", text |-> "hello",
            data |-> "absent"]

\* a decoder that takes bytes it cannot parse for a notification
deserialize_unparsed_as_notification(b) ==
    IF b.json /\ b.id # NoId /\ b.accepted # "absent" THEN "ResponseSuccess"
    ELSE IF b.json /\ b.id # NoId /\ b.error /\ b.reason # "absent" THEN "ResponseError"
    ELSE "Notification"

\* a reader that hands over the kind of the response in place of what it carries
CarriedKind(b) == b.text

\* what the reader task sends on the one-shot: data of a ResponseSuccess, reason
\* of a ResponseError
Carried(b) == IF b.accepted # "absent" THEN b.data ELSE b.reason

\* #[serde(untagged)] enum PayloadChannelReceiveMessage: the first variant whose
\* required fields are all present wins; bytes that are not JSON are Internal
deserialize_message(b) ==
    IF ~b.json THEN "Internal"
    ELSE IF b.id # NoId /\ b.accepted # "absent" THEN "ResponseSuccess"
    ELSE IF b.id # NoId /\ b.error /\ b.reason # "absent" THEN "ResponseError"
    ELSE "Notification"

----------------------------------------------------------------------------
(* Calls. *)

IdleCall == [kind |-> "none", pc |-> "idle", id |-> U32Zero, queue_len |-> 0,
             mlen |-> 0, plen |-> 0, deadline |-> 0, slot |-> "empty",
             result |-> "none", late |-> FALSE, lost |-> FALSE, value |-> "none"]

\* value is what was sent on the one-shot of the call, Ok(data) or
\* Err(ResponseError { reason }), and after the return what the call resolved to.

\* late and lost are kept for the properties only: late says the call was made
\* after a task of the channel had ended or Inner was dropped, lost that the call
\* was a request in flight (registered, accepted for its size, not answered, its
\* timer not fired) when the reader or the writer task ended.

\* a call that returned: its locals are gone, its id is kept for reference
Returned(r, res) ==
    [IdleCall EXCEPT !.kind = r.kind, !.pc = "done", !.id = r.id, !.result = res,
                     !.late = r.late, !.lost = r.lost,
                     !.value = IF res \in {"Ok", "Response"} THEN r.value ELSE "none"]

\* a call whose future was dropped at an await: its locals are gone, the timer
\* among them; deadline is kept for the properties only and says what the timer
\* had been set to (0: the drop came before the enqueue)
Abandoned(r) ==
    [IdleCall EXCEPT !.kind = r.kind, !.pc = "dropped", !.id = r.id, !.late = r.late,
                     !.lost = r.lost, !.deadline = r.deadline]

NoMsg == [call |-> 0, kind |-> "none"]

\* serialized message and payload lengths a caller may present
Lengths == {NS_PAYLOAD_MAX_LEN, NS_PAYLOAD_MAX_LEN + 1}

\* serialized_message.len() > NS_PAYLOAD_MAX_LEN, payload.len() > NS_PAYLOAD_MAX_LEN
TooLong(n) == n > NS_PAYLOAD_MAX_LEN

\* the call still owns the receiving half of its one-shot
ReceiverAlive(r) ==
    r.kind = "request" /\ r.pc \in {"registered", "sending", "waiting", "expired"}

\* the senders of the calls in S are dropped without a value having been sent
DropSenders(cs, S) ==
    [d \in Calls |-> IF d \in S /\ ReceiverAlive(cs[d]) /\ cs[d].slot = "empty"
                     THEN [cs[d] EXCEPT !.slot = "closed"] ELSE cs[d]]

\* async_oneshot::Sender::send on the senders of the calls in S, of Ok(x) when v
\* is "ok" and of Err(ResponseError { reason: x }) when v is "err"; the result of
\* send is ignored by the reader task, so a dropped receiver goes unnoticed
SendTo(cs, S, v, x) ==
    [d \in Calls |-> IF d \in S /\ ReceiverAlive(cs[d]) /\ cs[d].slot = "empty"
                     THEN [cs[d] EXCEPT !.slot = v, !.value = x] ELSE cs[d]]

\* a task of the channel ends: the requests in flight at this moment are marked
MarkLost(cs) ==
    [d \in Calls |-> IF /\ cs[d].kind = "request"
                        /\ cs[d].pc \in {"sending", "waiting"}
                        /\ cs[d].slot = "empty"
                     THEN [cs[d] EXCEPT !.lost = TRUE] ELSE cs[d]]

\* handlers.len() read after the insert
QueueLenAfterInsert(h) == Cardinality(DOMAIN h) + 1

\* handlers.len() read under the lock before the insert
QueueLen(h) == Cardinality(DOMAIN h)

\* (1000.0 * (15.0 + (0.1 * queue_len as f64))).round() as u64, in decimal fixed
\* point: 15.0 + 0.1 * d is (150 + d) tenths, times 1000 and rounded half up.
\* (In f64 the error of the product is far below 0.5 for every usize d that a
\* HashMap<u32, _> can hold, so round() returns this integer.)
TimeoutMs(d) == (1000 * (BaseTimeoutTenths + d) + 5) \div 10

\* the reader task ended on EOF or a read error, the writer task on a write error,
\* or Inner was dropped
TornDown == rpc \in {"eof", "failed"} \/ wpc = "failed" \/ innerDropped

\* async_channel::Sender::send fails: the channel was closed by Inner::drop or the
\* receiver was dropped with the writer task
SendClosed == innerDropped \/ wpc \in {"failed", "done"}

FirstIdle(c) == calls[c].pc = "idle" /\ \A d \in Calls : d < c => calls[d].pc # "idle"

\* the tasks that lock the registry: the reader task and the requesters
ReaderTask == 0
LockTasks == {ReaderTask} \cup (1..MaxRequesters)

\* nobody holds the guard of the registry mutex
Free == -1

----------------------------------------------------------------------------
Init ==
    /\ next_id = U32Zero
    /\ handlers = << >>
    /\ calls = [c \in Calls |-> IdleCall]
    /\ queue = << >>
    /\ wpc = "recv"
    /\ wmsg = NoMsg
    /\ wire = << >>
    /\ rpc = "frame"
    /\ rhold = NoBody
    /\ rlast = [act |-> "none", id |-> NoId]
    /\ delivered = << >>
    /\ internalQ = << >>
    /\ innerDropped = FALSE
    /\ nsLane = "none"
    /\ nsIn = << >>
    /\ nsPipe = << >>
    /\ nsLen = 0
    /\ nsOut = [status |-> "none", body |-> << >>]
    /\ nsPc = "idle"
    /\ fdOf = << >>
    /\ childFds = << >>
    /\ spawnPc = "pipes"
    /\ spawnResult = "none"
    /\ parentFds = {}
    /\ pureIn = << >>
    /\ pureOut = << >>
    /\ purePc = "idle"
    /\ subs = << >>
    /\ mutex = Free
    /\ lpc = [t \in LockTasks |-> IF t = ReaderTask THEN "reading" ELSE "start"]

callerOnly == << queue, wpc, wmsg, wire, rpc, rhold, rlast, delivered, internalQ,
                 innerDropped, elsewhere >>

\* request_internal, the block under the registry lock
Register(c, m, p) ==
    /\ FirstIdle(c)
    /\ ~innerDropped
    /\ next_id' = wrapping_add(next_id)
    /\ handlers' = Insert(handlers, next_id, c)
    /\ calls' = [DropSenders(calls, Owner(handlers, next_id)) EXCEPT ![c] =
                    [kind |-> "request", pc |-> "registered", id |-> next_id,
                     queue_len |-> QueueLen(handlers), mlen |-> m, plen |-> p,
                     deadline |-> 0, slot |-> "empty", result |-> "none",
                     late |-> TornDown, lost |-> FALSE, value |-> "none"]]
    /\ UNCHANGED callerOnly

\* request_internal, the two length checks
CheckSize(c) ==
    /\ calls[c].kind = "request" /\ calls[c].pc = "registered"
    /\ IF TooLong(calls[c].mlen) \/ TooLong(calls[c].plen)
       THEN /\ handlers' = Remove(handlers, calls[c].id)
            /\ calls' = [DropSenders(calls, Owner(handlers, calls[c].id) \ {c})
                            EXCEPT ![c] = Returned(calls[c],
                                                   IF TooLong(calls[c].mlen)
                                                   THEN "MessageTooLong"
                                                   ELSE "PayloadTooLong")]
       ELSE /\ calls' = [calls EXCEPT ![c].pc = "sending"]
            /\ UNCHANGED handlers
    /\ UNCHANGED << next_id, callerOnly >>

\* notify_internal up to the enqueue
StartNotify(c, m, p) ==
    /\ FirstIdle(c)
    /\ ~innerDropped
    /\ LET r == [IdleCall EXCEPT !.kind = "notify", !.late = TornDown]
       IN  calls' = [calls EXCEPT ![c] =
                        IF TooLong(m) THEN Returned(r, "MessageTooLong")
                        ELSE IF TooLong(p) THEN Returned(r, "PayloadTooLong")
                        ELSE [r EXCEPT !.pc = "sending", !.mlen = m, !.plen = p]]
    /\ UNCHANGED << next_id, handlers, callerOnly >>

\* a send on a queue without a capacity: the caller is never parked
EnqueueUnbounded(c) ==
    /\ calls[c].pc = "sending"
    /\ IF SendClosed
       THEN /\ calls' = [calls EXCEPT ![c] = Returned(calls[c], "ChannelClosed")]
            /\ UNCHANGED queue
       ELSE /\ queue' = Append(queue, [call |-> c, kind |-> calls[c].kind])
            /\ calls' = IF calls[c].kind = "request"
                        THEN [calls EXCEPT ![c].pc = "waiting",
                                           ![c].deadline = TimeoutMs(calls[c].queue_len)]
                        ELSE [calls EXCEPT ![c] = Returned(calls[c], "Ok")]
    /\ UNCHANGED << next_id, handlers, wpc, wmsg, wire, rpc, rhold, rlast,
                    delivered, internalQ, innerDropped, elsewhere >>

\* self.inner.sender.send(MessageWithPayload { .. }).await
Enqueue(c) ==
    /\ calls[c].pc = "sending"
    /\ IF SendClosed
       THEN /\ calls' = [calls EXCEPT ![c] = Returned(calls[c], "ChannelClosed")]
            /\ UNCHANGED queue
       ELSE /\ Len(queue) < QueueCap
            /\ queue' = Append(queue, [call |-> c, kind |-> calls[c].kind])
            /\ calls' = IF calls[c].kind = "request"
                        THEN [calls EXCEPT ![c].pc = "waiting",
                                           ![c].deadline = TimeoutMs(calls[c].queue_len)]
                        ELSE [calls EXCEPT ![c] = Returned(calls[c], "Ok")]
    /\ UNCHANGED << next_id, handlers, wpc, wmsg, wire, rpc, rhold, rlast,
                    delivered, internalQ, innerDropped, elsewhere >>

\* a requester whose timer branch, once the timer fired, goes on after the
\* response was taken
ReceiveResultLeavesTimer(c) ==
    /\ calls[c].pc \in {"waiting", "expired"}
    /\ calls[c].slot # "empty"
    /\ LET res == CASE calls[c].slot = "ok" -> "Ok"
                     [] calls[c].slot = "err" -> "Response"
                     [] OTHER -> "ChannelClosed"
       IN  calls' = [calls EXCEPT ![c] = IF calls[c].pc = "expired"
                                         THEN [calls[c] EXCEPT !.result = res]
                                         ELSE Returned(calls[c], res)]
    /\ UNCHANGED << next_id, handlers, callerOnly >>

\* future::or, first branch: result_receiver.await
ReceiveResult(c) ==
    /\ calls[c].pc \in {"waiting", "expired"}
    /\ calls[c].slot # "empty"
    /\ calls' = [calls EXCEPT ![c] =
                    Returned(calls[c], CASE calls[c].slot = "ok" -> "Ok"
                                         [] calls[c].slot = "err" -> "Response"
                                         [] OTHER -> "ChannelClosed")]
    /\ UNCHANGED << next_id, handlers, callerOnly >>

\* future::or, second branch: the timer fires after the receiver was polled
TimerExpire(c) ==
    /\ calls[c].pc = "waiting"
    /\ calls[c].slot = "empty"
    /\ calls' = [calls EXCEPT ![c].pc = "expired"]
    /\ UNCHANGED << next_id, handlers, callerOnly >>

\* the timer branch returning TimedOut without the remove
TimeoutKeepsEntry(c) ==
    /\ calls[c].pc = "expired"
    /\ calls' = [calls EXCEPT ![c] = Returned(calls[c], "TimedOut")]
    /\ UNCHANGED << next_id, handlers, callerOnly >>

\* future::or, second branch: handlers.remove(&id) and Err(TimedOut)
TimeoutRemove(c) ==
    /\ calls[c].pc = "expired"
    /\ handlers' = Remove(handlers, calls[c].id)
    /\ calls' = [DropSenders(calls, Owner(handlers, calls[c].id) \ {c})
                    EXCEPT ![c] = Returned(calls[c], "TimedOut")]
    /\ UNCHANGED << next_id, callerOnly >>

\* the caller drops the future returned by request() or notify() at an await
DropFuture(c) ==
    /\ calls[c].pc \in {"sending", "waiting", "expired"}
    /\ calls' = [calls EXCEPT ![c] = Abandoned(calls[c])]
    /\ UNCHANGED << next_id, handlers, callerOnly >>

\* the n ids just below x, modulo 2^32 (n is 1 or 2)
Below(x, n) ==
    IF n = 1 THEN {wrapping_pred(x)} ELSE {wrapping_pred(x), wrapping_pred(wrapping_pred(x))}

\* A burst of 2^32 - n complete rounds of request_internal and the reader task
\* (register, enqueue, write, response, remove), n being 1 or 2.  The rounds take
\* the ids next_id .. next_id + 2^32 - n - 1, none of which is pending; every
\* round leaves handlers as it found it, and next_id ends n below where it
\* started.  The frames of these rounds are not kept in wire.
Burst(n) ==
    /\ next_id[1] = 0 /\ next_id[2] >= 1
    /\ \A c \in Calls : calls[c].pc \in {"idle", "waiting", "done", "dropped"}
    /\ queue = << >> /\ wpc = "recv" /\ rpc = "frame"
    /\ ~innerDropped
    /\ DOMAIN handlers \subseteq Below(next_id, n)
    /\ next_id' = IF n = 1 THEN wrapping_pred(next_id)
                  ELSE wrapping_pred(wrapping_pred(next_id))
    /\ UNCHANGED << handlers, calls, callerOnly >>

\* Inner::drop, once the last PayloadChannel clone is gone: no call is running
\* (a running call borrows the channel) and none can start afterwards
DropInner ==
    /\ ~innerDropped
    /\ \A c \in Calls : calls[c].pc \in {"idle", "done", "dropped"}
    /\ innerDropped' = TRUE
    /\ UNCHANGED << next_id, handlers, calls, queue, wpc, wmsg, wire, rpc,
                    rhold, rlast, delivered, internalQ, elsewhere >>

----------------------------------------------------------------------------
(* Writer task. *)

writerOnly == << next_id, handlers, calls, rpc, rhold, rlast, delivered,
                 internalQ, innerDropped, elsewhere >>

Netstring(msg, part) == [call |-> msg.call, kind |-> msg.kind, part |-> part]

\* while let Ok(message) = receiver.recv().await
WriterRecv ==
    /\ wpc = "recv"
    /\ IF queue # << >>
       THEN /\ wmsg' = Head(queue)
            /\ queue' = Tail(queue)
            /\ wpc' = "message"
       ELSE /\ innerDropped
            /\ wpc' = "done"
            /\ UNCHANGED << wmsg, queue >>
    /\ UNCHANGED << wire, writerOnly >>

\* a writer that goes back for the next message once the JSON netstring is out
WriteMessageThenRecv ==
    /\ wpc = "message"
    /\ wire' = Append(wire, Netstring(wmsg, "message"))
    /\ wpc' = "recv"
    /\ wmsg' = NoMsg
    /\ UNCHANGED << queue, writerOnly >>

\* first writer.write_all(&bytes).await?: the netstring of message.message
WriteMessage ==
    /\ wpc = "message"
    /\ wire' = Append(wire, Netstring(wmsg, "message"))
    /\ wpc' = "payload"
    /\ UNCHANGED << wmsg, queue, writerOnly >>

\* a writer that writes the payload netstring for notifications only
WritePayloadNotifyOnly ==
    /\ wpc = "payload"
    /\ wire' = IF wmsg.kind = "notify"
               THEN Append(wire, Netstring(wmsg, "payload")) ELSE wire
    /\ wpc' = "recv"
    /\ wmsg' = NoMsg
    /\ UNCHANGED << queue, writerOnly >>

\* second writer.write_all(&bytes).await?: the netstring of message.payload
WritePayload ==
    /\ wpc = "payload"
    /\ wire' = Append(wire, Netstring(wmsg, "payload"))
    /\ wpc' = "recv"
    /\ wmsg' = NoMsg
    /\ UNCHANGED << queue, writerOnly >>

\* write_all returns an error: the task ends and drops the receiver, and with it
\* whatever is still queued; wmsg stays the message whose write failed
WriterIoError ==
    /\ wpc \in {"message", "payload"}
    /\ wpc' = "failed"
    /\ queue' = << >>
    /\ calls' = MarkLost(calls)
    /\ UNCHANGED << wmsg, wire, next_id, handlers, rpc, rhold, rlast, delivered,
                    internalQ, innerDropped, elsewhere >>

----------------------------------------------------------------------------
(* Subscription registry (EventHandlers).  A subscription is the record of  *)
(* one callback: its target id, whether its handle is still held, and the  *)
(* values the callback was invoked with.  since and until are kept for the  *)
(* properties only: how many notifications had been dispatched when the     *)
(* callback was added and when its handle was dropped.                      *)

NotUnsubscribed == -1

\* EventHandlers::add: the callback goes behind the ones already there
add(S, t, now) ==
    Append(S, [target |-> t, alive |-> TRUE, got |-> << >>, since |-> now,
               until |-> NotUnsubscribed])

\* dropping the SubscriptionHandler removes the callback at once
remove(S, i, now) == [S EXCEPT ![i].alive = FALSE, ![i].until = now]

\* EventHandlers::call_callbacks_with_value: every callback registered for the
\* target id is invoked with the value, in insertion order
call_callbacks_with_value(S, t, v) ==
    [i \in DOMAIN S |-> IF S[i].alive /\ S[i].target = t
                        THEN [S[i] EXCEPT !.got = Append(@, v)] ELSE S[i]]

----------------------------------------------------------------------------
(* Reader task.  The frame it reads is whatever the worker wrote next.      *)

StrayId == << 0, 7 >>

AllocatedIds == {calls[c].id : c \in {d \in Calls : calls[d].kind = "request"}}

ResponseBodies ==
    {SuccessBody(k) : k \in AllocatedIds \cup {StrayId}}
    \cup {ErrorBody(k) : k \in AllocatedIds \cup {StrayId}}

readerOnly == << next_id, queue, wpc, wmsg, wire, innerDropped, elsewhere >>

\* a reader that dispatches a notification as soon as its frame is decoded and
\* reads the frame after it as a message of its own
ReadFrameDispatchesAtOnce(b) ==
    /\ rpc = "frame"
    /\ deserialize_message(b) = "Notification" /\ b.targetId # "absent"
         => Len(delivered) < MaxDelivered
    /\ LET kind == deserialize_message(b)
       IN  CASE kind \in {"ResponseSuccess", "ResponseError"} ->
                  /\ handlers' = Remove(handlers, b.id)
                  /\ calls' = SendTo(calls, Owner(handlers, b.id),
                                     IF kind = "ResponseSuccess" THEN "ok" ELSE "err",
                                     Carried(b))
                  /\ rlast' = [act |-> IF b.id \in DOMAIN handlers
                                       THEN "matched" ELSE "unmatched",
                               id |-> b.id]
                  /\ UNCHANGED << rpc, rhold, delivered >>
             [] kind = "Notification" /\ b.targetId # "absent" ->
                  /\ delivered' = Append(delivered, [target |-> b.targetId,
                                                     message |-> b,
                                                     payload |-> NoBody])
                  /\ rlast' = [act |-> "notification", id |-> NoId]
                  /\ UNCHANGED << rpc, rhold, handlers, calls >>
             [] OTHER ->
                  /\ rpc' = "internal"
                  /\ rhold' = b
                  /\ rlast' = [act |-> "unexpected", id |-> NoId]
                  /\ UNCHANGED << handlers, calls, delivered >>
    /\ UNCHANGED << internalQ, readerOnly >>

\* a reader that takes the frame after a response for the payload of that
\* response
ReadFrameResponseTakesPayload(b) ==
    /\ rpc = "frame"
    /\ deserialize_message(b) = "Notification" /\ b.targetId # "absent"
         => Len(delivered) < MaxDelivered
    /\ LET kind == deserialize_message(b)
       IN  CASE kind \in {"ResponseSuccess", "ResponseError"} ->
                  /\ handlers' = Remove(handlers, b.id)
                  /\ calls' = SendTo(calls, Owner(handlers, b.id),
                                     IF kind = "ResponseSuccess" THEN "ok" ELSE "err",
                                     Carried(b))
                  /\ rlast' = [act |-> IF b.id \in DOMAIN handlers
                                       THEN "matched" ELSE "unmatched",
                               id |-> b.id]
                  /\ rpc' = "payload"
                  /\ rhold' = NoBody
             [] kind = "Notification" ->
                  /\ rpc' = "payload"
                  /\ rhold' = b
                  /\ rlast' = [act |-> "notification", id |-> NoId]
                  /\ UNCHANGED << handlers, calls >>
             [] OTHER ->
                  /\ rpc' = "internal"
                  /\ rhold' = b
                  /\ rlast' = [act |-> "unexpected", id |-> NoId]
                  /\ UNCHANGED << handlers, calls >>
    /\ UNCHANGED << delivered, internalQ, readerOnly >>

\* one turn of the loop up to the match on deserialize_message
ReadFrame(b) ==
    /\ rpc = "frame"
    /\ deserialize_message(b) = "Notification" /\ b.targetId # "absent"
         => Len(delivered) < MaxDelivered
    /\ LET kind == deserialize_message(b)
       IN  CASE kind \in {"ResponseSuccess", "ResponseError"} ->
                  /\ handlers' = Remove(handlers, b.id)
                  /\ calls' = SendTo(calls, Owner(handlers, b.id),
                                     IF kind = "ResponseSuccess" THEN "ok" ELSE "err",
                                     Carried(b))
                  /\ rlast' = [act |-> IF b.id \in DOMAIN handlers
                                       THEN "matched" ELSE "unmatched",
                               id |-> b.id]
                  /\ UNCHANGED << rpc, rhold >>
             [] kind = "Notification" ->
                  /\ rpc' = "payload"
                  /\ rhold' = b
                  /\ rlast' = [act |-> "notification", id |-> NoId]
                  /\ UNCHANGED << handlers, calls >>
             [] OTHER ->
                  /\ rpc' = "internal"
                  /\ rhold' = b
                  /\ rlast' = [act |-> "unexpected", id |-> NoId]
                  /\ UNCHANGED << handlers, calls >>
    /\ UNCHANGED << delivered, internalQ, readerOnly >>

\* a reader that puts the newest notification in front of the earlier ones
ReadPayloadFrameNewestFirst(b) ==
    /\ rpc = "payload"
    /\ rlast' = [act |-> "payload", id |-> NoId]
    /\ IF rhold.targetId # "absent"
       THEN /\ delivered' = << [target |-> rhold.targetId, message |-> rhold,
                                payload |-> b] >> \o delivered
            /\ rpc' = "frame"
            /\ rhold' = NoBody
       ELSE /\ rpc' = "internal"
            /\ rhold' = b
            /\ UNCHANGED delivered
    /\ UNCHANGED << handlers, calls, internalQ, readerOnly >>

\* a reader that hands a notification to its callbacks only when the payload
\* frame is not empty
ReadPayloadFrameSkipsEmpty(b) ==
    /\ rpc = "payload"
    /\ rlast' = [act |-> "payload", id |-> NoId]
    /\ IF rhold.targetId # "absent"
       THEN /\ delivered' = Append(delivered, [target |-> rhold.targetId,
                                               message |-> rhold,
                                               payload |-> b])
            /\ subs' = IF b.text = "none" THEN subs
                       ELSE call_callbacks_with_value(subs, rhold.targetId,
                                                      [target |-> rhold.targetId,
                                                       message |-> rhold,
                                                       payload |-> b])
            /\ rpc' = "frame"
            /\ rhold' = NoBody
       ELSE /\ rpc' = "internal"
            /\ rhold' = b
            /\ UNCHANGED << delivered, subs >>
    /\ UNCHANGED << handlers, calls, internalQ, next_id, queue, wpc, wmsg, wire,
                    innerDropped, apart >>

\* the Notification arm: the next frame is read as the payload, then the pair is
\* handed to the callbacks of targetId, or the payload bytes to the internal sink
ReadPayloadFrame(b) ==
    /\ rpc = "payload"
    /\ rlast' = [act |-> "payload", id |-> NoId]
    /\ IF rhold.targetId # "absent"
       THEN /\ delivered' = Append(delivered, [target |-> rhold.targetId,
                                               message |-> rhold,
                                               payload |-> b])
            /\ subs' = call_callbacks_with_value(subs, rhold.targetId,
                                                 [target |-> rhold.targetId,
                                                  message |-> rhold,
                                                  payload |-> b])
            /\ rpc' = "frame"
            /\ rhold' = NoBody
       ELSE /\ rpc' = "internal"
            /\ rhold' = b
            /\ UNCHANGED << delivered, subs >>
    /\ UNCHANGED << handlers, calls, internalQ, next_id, queue, wpc, wmsg, wire,
                    innerDropped, apart >>

\* sender.send(InternalMessage::UnexpectedData(..)).await
SendInternal ==
    /\ rpc = "internal"
    /\ IF innerDropped
       THEN /\ rpc' = "closed"
            /\ UNCHANGED internalQ
       ELSE /\ Len(internalQ) < QueueCap
            /\ internalQ' = Append(internalQ, rhold)
            /\ rpc' = "frame"
    /\ rhold' = NoBody
    /\ UNCHANGED << handlers, calls, rlast, delivered, readerOnly >>

\* read_until returns 0 bytes: the worker closed its end of the pipe
ReaderEof ==
    /\ rpc \in {"frame", "payload"}
    /\ rpc' = "eof"
    /\ rhold' = NoBody
    /\ calls' = MarkLost(calls)
    /\ UNCHANGED << handlers, rlast, delivered, internalQ, readerOnly >>

\* read_until or read_exact returns an error
ReaderIoError ==
    /\ rpc \in {"frame", "payload"}
    /\ rpc' = "failed"
    /\ rhold' = NoBody
    /\ calls' = MarkLost(calls)
    /\ UNCHANGED << handlers, rlast, delivered, internalQ, readerOnly >>

\* the owner of the internal message receiver takes a message
InternalRecv ==
    /\ internalQ # << >>
    /\ ~innerDropped
    /\ internalQ' = Tail(internalQ)
    /\ UNCHANGED << next_id, handlers, calls, queue, wpc, wmsg, wire, rpc,
                    rhold, rlast, delivered, innerDropped, elsewhere >>

----------------------------------------------------------------------------
(* The request registry with its callers, the writer task and the reader    *)
(* task fed with responses.                                                 *)

Next ==
    \/ \E c \in Calls, m \in Lengths, p \in Lengths : Register(c, m, p)
    \/ \E c \in Calls : CheckSize(c)
    \/ \E c \in Calls, m \in Lengths, p \in Lengths : StartNotify(c, m, p)
    \/ \E c \in Calls : Enqueue(c)
    \/ \E c \in Calls : ReceiveResult(c)
    \/ \E c \in Calls : TimerExpire(c)
    \/ \E c \in Calls : TimeoutRemove(c)
    \/ \E c \in Calls : DropFuture(c)
    \/ \E n \in {1, 2} : Burst(n)
    \/ DropInner
    \/ WriterRecv
    \/ WriteMessage
    \/ WritePayload
    \/ WriterIoError
    \/ \E b \in ResponseBodies : ReadFrame(b)
    \/ ReaderEof
    \/ ReaderIoError

Spec == Init /\ [][Next]_vars

----------------------------------------------------------------------------
(* Properties of the request registry.                                      *)

\* a request that is registered and not yet answered, timed out or refused
InFlight(c) ==
    /\ calls[c].kind = "request"
    /\ calls[c].pc \in {"registered", "sending", "waiting", "expired"}
    /\ calls[c].slot \notin {"ok", "err"}

\* the one-shot sender of call c is the entry under its id
HoldsSlot(c) == calls[c].id \in DOMAIN handlers /\ handlers[calls[c].id] = c

\* C1: no two requests in flight at the same time have the same id, and every
\* request in flight still has its own completion slot in the pending map (no
\* later registration replaced or dropped it), also after next_id wrapped around.
C1_InFlightIdsUnique ==
    /\ \A c, d \in Calls : c # d /\ InFlight(c) /\ InFlight(d) => calls[c].id # calls[d].id
    /\ \A c \in Calls : InFlight(c) => HoldsSlot(c) /\ calls[c].slot = "empty"

\* the value the reader task sends for a response body
Outcome(b) == IF deserialize_message(b) = "ResponseSuccess" THEN "ok" ELSE "err"

\* C2: a response with id k takes k out of the pending map and hands its outcome
\* to the one-shot of the request registered under k and to no other request
\* (that request gets the outcome when it still waits; when its future was
\* dropped or it already returned, nobody is left to get it); when k is not in
\* the map no request is completed and the map stays as it is.  The frames come
\* in any order relative to the order of the requests.
C2_ResponseMatching ==
    [][\A b \in ResponseBodies : ReadFrame(b) =>
          IF b.id \in DOMAIN handlers
          THEN /\ DOMAIN handlers' = DOMAIN handlers \ {b.id}
               /\ \A k \in DOMAIN handlers' : handlers'[k] = handlers[k]
               /\ \A c \in Calls : c # handlers[b.id] => calls'[c] = calls[c]
               /\ LET o == handlers[b.id]
                  IN  IF ReceiverAlive(calls[o]) /\ calls[o].slot = "empty"
                      THEN calls'[o] = [calls[o] EXCEPT !.slot = Outcome(b),
                                                       !.value = Carried(b)]
                      ELSE calls'[o] = calls[o]
          ELSE handlers' = handlers /\ calls' = calls]_vars

\* C2 witness: the response of the second request was matched while the first
\* request was still waiting, and the last response read matched no request.
C2_Witness ==
    /\ MaxCalls >= 2
    /\ calls[2].result = "Ok"
    /\ calls[1].pc = "waiting" /\ calls[1].slot = "empty" /\ HoldsSlot(1)
    /\ rlast.act = "unmatched"

\* C3: every request that was in flight when the reader task saw EOF, or when a
\* pipe read or write failed, resolves with ChannelClosed, never with TimedOut.
C3_PendingResolveChannelClosed ==
    \A c \in Calls :
        calls[c].lost /\ calls[c].pc = "done" => calls[c].result = "ChannelClosed"

\* C4: a call to request or notify made after the channel was torn down (and not
\* refused for its size before it reaches the queue) returns ChannelClosed.
C4_LaterCallsChannelClosed ==
    \A c \in Calls :
        ( /\ calls[c].late
          /\ calls[c].pc = "done"
          /\ calls[c].result \notin {"MessageTooLong", "PayloadTooLong"} )
        => calls[c].result = "ChannelClosed"

\* C5: the depth d a request records is the size of the pending map just before
\* its own entry is inserted, and its timer runs 15000 + 100 * d milliseconds
\* (16000 ms for d = 10).
C5_TimeoutScaling ==
    [][ /\ \A c \in Calls : \A m, p \in Lengths :
              Register(c, m, p) => calls'[c].queue_len = Cardinality(DOMAIN handlers)
        /\ \A c \in Calls :
              Enqueue(c) /\ calls'[c].pc = "waiting"
                  => calls'[c].deadline = 15000 + 100 * calls[c].queue_len
        /\ TimeoutMs(10) = 16000 ]_vars

\* C5 witness: a request registered while one other request was pending is
\* waiting with a deadline of 15100 ms.
C5_Witness ==
    \E c \in Calls :
        /\ calls[c].pc = "waiting"
        /\ calls[c].queue_len = 1
        /\ calls[c].deadline = 15100
        /\ Cardinality(DOMAIN handlers) = 2

\* C6: when the deadline of a request fires, the request returns TimedOut and
\* its id leaves the pending map; the id comes back only with a new registration,
\* and a response for it that arrives while it is absent completes no request
\* and leaves the registry unchanged.
C6_TimeoutRemovesId ==
    [][ /\ \A c \in Calls :
              TimeoutRemove(c) => /\ calls'[c].pc = "done"
                                  /\ calls'[c].result = "TimedOut"
                                  /\ calls[c].id \notin DOMAIN handlers'
        /\ \A c \in Calls :
              ( /\ calls[c].result = "TimedOut"
                /\ calls[c].id \notin DOMAIN handlers
                /\ calls[c].id \in DOMAIN handlers' )
              => next_id = calls[c].id /\ next_id' # next_id
        /\ \A c \in Calls : \A b \in ResponseBodies :
              ( /\ calls[c].result = "TimedOut"
                /\ b.id = calls[c].id
                /\ b.id \notin DOMAIN handlers
                /\ ReadFrame(b) )
              => handlers' = handlers /\ calls' = calls ]_vars

\* C6 witness: a request timed out, its id is gone from the map, and the last
\* frame the reader took was a response for that id, which matched nothing.
C6_Witness ==
    \E c \in Calls :
        /\ calls[c].result = "TimedOut"
        /\ calls[c].id \notin DOMAIN handlers
        /\ rlast = [act |-> "unmatched", id |-> calls[c].id]

\* C7: request and notify return MessageTooLong for a serialized body longer than
\* 4194304 bytes and PayloadTooLong for a payload longer than that; nothing is
\* enqueued or written, and the refused call leaves the pending map as it was
\* before the call: its registration adds one entry without touching another,
\* and its refusal takes exactly that entry away.
C7_OversizeRefused ==
    [][\A c \in Calls :
          /\ \A m, p \in Lengths :
                Register(c, m, p) /\ (m > 4194304 \/ p > 4194304)
                    => /\ next_id \notin DOMAIN handlers
                       /\ \A k \in DOMAIN handlers :
                             k \in DOMAIN handlers' /\ handlers'[k] = handlers[k]
          /\ ( /\ CheckSize(c)
               /\ (calls[c].mlen > 4194304 \/ calls[c].plen > 4194304) )
                => /\ calls'[c].pc = "done"
                   /\ calls'[c].result = IF calls[c].mlen > 4194304
                                         THEN "MessageTooLong" ELSE "PayloadTooLong"
                   /\ queue' = queue /\ wire' = wire
                   /\ DOMAIN handlers' = DOMAIN handlers \ {calls[c].id}
                   /\ \A k \in DOMAIN handlers' : handlers'[k] = handlers[k]
          /\ \A m, p \in Lengths :
                StartNotify(c, m, p) /\ (m > 4194304 \/ p > 4194304)
                    => /\ calls'[c].pc = "done"
                       /\ calls'[c].result = IF m > 4194304
                                             THEN "MessageTooLong" ELSE "PayloadTooLong"
                       /\ queue' = queue /\ wire' = wire
                       /\ handlers' = handlers ]_vars

\* C8: a request that returned ChannelClosed has no entry of its own left in the
\* pending map.
C8_EnqueueFailureRemovesId ==
    \A c \in Calls :
        calls[c].kind = "request" /\ calls[c].pc = "done" /\ calls[c].result = "ChannelClosed"
            => ~HoldsSlot(c)

----------------------------------------------------------------------------
(* Properties of the writer task.                                           *)

FramesOf(c) == SelectSeq(wire, LAMBDA f : f.call = c)

\* the writer task is through with the message of call c
Written(c) == FramesOf(c) # << >> /\ wmsg.call # c

\* C10 as stated: a request is written as exactly one netstring, a notification
\* as exactly two.
C10_RequestOneNetstring ==
    \A c \in Calls :
        Written(c) => Len(FramesOf(c)) = IF calls[c].kind = "request" THEN 1 ELSE 2

\* C10 amended: every outbound message the writer task writes without a pipe
\* error, request and notification alike, is written as exactly two netstrings,
\* the JSON body and then the payload.
C10_EveryMessageTwoNetstrings ==
    \A c \in Calls :
        Written(c) =>
            /\ Len(FramesOf(c)) = 2
            /\ \E i \in 1..(Len(wire) - 1) :
                  /\ wire[i] = [call |-> c, kind |-> calls[c].kind, part |-> "message"]
                  /\ wire[i + 1] = [call |-> c, kind |-> calls[c].kind, part |-> "payload"]

\* C10 witness: a request and a notification have both been written in full.
C10_Witness ==
    \E c, d \in Calls :
        /\ calls[c].kind = "request" /\ Written(c)
        /\ calls[d].kind = "notify" /\ Written(d)
        /\ Len(wire) = 4


----------------------------------------------------------------------------
(* The reader task fed with every kind of frame, next to callers whose      *)
(* requests wait for a response.                                            *)

\* what the worker may write as a frame: responses, notifications with and
\* without targetId, bytes that are not JSON
FrameBodies == ResponseBodies \cup {NoteBody("R1"), NoteBody("absent"), RawBody}

\* the callers that make requests while the reader is fed with every frame
NoteCalls == 1..MaxNoteCalls

NextNotes ==
    \/ \E c \in NoteCalls, m \in Lengths, p \in Lengths : Register(c, m, p)
    \/ \E c \in NoteCalls : CheckSize(c)
    \/ \E c \in NoteCalls : Enqueue(c)
    \/ \E c \in NoteCalls : ReceiveResult(c)
    \/ WriterRecv
    \/ WriteMessage
    \/ WritePayload
    \/ DropInner
    \/ \E b \in FrameBodies : ReadFrame(b)
    \/ \E b \in FrameBodies : ReadPayloadFrame(b)
    \/ SendInternal
    \/ InternalRecv
    \/ ReaderEof

NotesSpec == Init /\ [][NextNotes]_vars

\* C9: once a notification frame is decoded the reader holds it and turns to the
\* next frame; that frame, whatever it looks like, is consumed as the payload of
\* the held notification; and from the notification frame to its payload frame
\* no request is completed and nothing is handed to a notification callback.
C9_NotificationThenPayload ==
    [][/\ \A b \in FrameBodies :
             ReadFrame(b) /\ deserialize_message(b) = "Notification" =>
                 /\ rpc' = "payload" /\ rhold' = b
                 /\ handlers' = handlers /\ calls' = calls
                 /\ delivered' = delivered /\ internalQ' = internalQ
       /\ \A b \in FrameBodies :
             ReadPayloadFrame(b) =>
                 /\ handlers' = handlers /\ calls' = calls
                 /\ IF rhold.targetId # "absent"
                    THEN /\ delivered' = Append(delivered,
                                [target |-> rhold.targetId, message |-> rhold,
                                 payload |-> b])
                         /\ rpc' = "frame"
                    ELSE /\ delivered' = delivered
                         /\ rpc' = "internal" /\ rhold' = b
       /\ rpc = "payload" /\ rpc' = "payload" =>
             /\ rhold' = rhold
             /\ delivered' = delivered
             /\ \A c \in Calls :
                   calls'[c].slot \in {"ok", "err"} => calls'[c].slot = calls[c].slot
      ]_vars

\* a notification was delivered whose payload frame reads like the success
\* response of a request that is still waiting for its response
C9_Witness ==
    /\ delivered # << >>
    /\ deserialize_message(delivered[1].payload) = "ResponseSuccess"
    /\ delivered[1].payload.id \in DOMAIN handlers
    /\ \E c \in Calls : /\ calls[c].pc = "waiting" /\ calls[c].slot = "empty"
                        /\ calls[c].id = delivered[1].payload.id


----------------------------------------------------------------------------
(* Order of the records on the host->worker payload pipe.                   *)

\* the calls whose JSON netstring is on the pipe, in pipe order
WireCalls ==
    LET ms == SelectSeq(wire, LAMBDA f : f.part = "message")
    IN  [i \in 1..Len(ms) |-> ms[i].call]

\* the calls whose message was accepted by the outbound queue, oldest first:
\* those on the pipe, the one the writer task is about to write, those queued
AcceptOrder ==
    WireCalls \o (IF wpc = "message" THEN << wmsg.call >> ELSE << >>)
              \o [i \in 1..Len(queue) |-> queue[i].call]

\* every JSON netstring on the pipe is directly followed by the payload
\* netstring of the same message, unless it is the last thing written so far
Contiguous(w) ==
    \A i \in 1..Len(w) :
        IF i % 2 = 1
        THEN w[i].part = "message"
        ELSE w[i].part = "payload" /\ w[i].call = w[i - 1].call /\ w[i].kind = w[i - 1].kind

\* C11: whatever the interleaving of the callers, a message the queue accepts
\* goes behind every message accepted before it and reaches the pipe in that
\* order (the order changes in no other step; a writer that ended on a pipe error
\* writes nothing more), and on the pipe the JSON frame of a message is directly
\* followed by its own payload frame, no frame of another record in between.
C11_WireOrderContiguous ==
    [][ /\ \A c \in Calls :
              Enqueue(c) /\ queue' # queue => AcceptOrder' = Append(AcceptOrder, c)
        /\ (\A c \in Calls : ~(Enqueue(c) /\ queue' # queue))
              => AcceptOrder' = AcceptOrder \/ (wpc' = "failed" /\ wire' = wire)
        /\ Contiguous(wire') ]_vars

\* C11 witness: the call started second was enqueued first, a request and a
\* notification, and both records are on the pipe in the order of the enqueues.
C11_Witness ==
    /\ Len(wire) = 4
    /\ WireCalls = << 2, 1 >>
    /\ wire[1].kind # wire[3].kind


----------------------------------------------------------------------------
(* Dispatch of notifications.                                               *)

\* C12: a notification with a targetId is held while the frame after it is read,
\* then handed over once, behind every notification handed over before, under
\* its own targetId and with exactly that frame as payload; the hand-over is
\* finished (the reader is back at the top of its loop) before the next frame is
\* read, and nothing is handed over in any other step.
C12_DispatchInOrder ==
    [][ /\ \A b \in FrameBodies :
              ( /\ ReadFrame(b)
                /\ deserialize_message(b) = "Notification"
                /\ b.targetId # "absent" )
              => delivered' = delivered /\ rpc' = "payload" /\ rhold' = b
        /\ \A b \in FrameBodies :
              ReadPayloadFrame(b) /\ rhold.targetId # "absent"
              => /\ Len(delivered') = Len(delivered) + 1
                 /\ SubSeq(delivered', 1, Len(delivered)) = delivered
                 /\ delivered'[Len(delivered')] =
                        [target |-> rhold.targetId, message |-> rhold, payload |-> b]
                 /\ rpc' = "frame"
        /\ delivered' # delivered
              => /\ rpc = "payload" /\ rhold.targetId # "absent"
                 /\ \E b \in FrameBodies : ReadPayloadFrame(b) ]_vars

\* C12 witness: two notifications were handed over one after the other, each
\* with its own payload frame.
C12_Witness ==
    /\ Len(delivered) = 2
    /\ delivered[1].payload = RawBody
    /\ deserialize_message(delivered[2].payload) = "Notification"
    /\ rpc = "frame"


\* what the reader task is about to send to the internal (unexpected data) sink
SinkData == IF rpc = "internal" THEN {rhold} ELSE {}

\* C13: a notification without a subscriber (here: without a targetId) calls no
\* callback, and both its JSON body and its payload go to the unexpected-data
\* sink, after which the reader reads the next frame.
C13_UnsubscribedPairSurfaced ==
    [][ /\ \A b \in FrameBodies :
              ReadPayloadFrame(b) /\ rhold.targetId = "absent"
              => /\ delivered' = delivered
                 /\ rhold \in SinkData' /\ b \in SinkData'
        /\ SendInternal /\ ~innerDropped => rpc' = "frame" ]_vars


\* C14: a frame that is not JSON reaches no request caller and no subscriber:
\* the pending map and every call stay as they are, the reader holds exactly the
\* bytes of the frame for the internal channel, and once the channel (whose
\* receiver is still open) has taken them as they are, the reader is back at the
\* top of its loop.
C14_UnparsedToInternal ==
    [][ /\ \A b \in FrameBodies :
              ReadFrame(b) /\ ~b.json
              => /\ handlers' = handlers /\ calls' = calls /\ delivered' = delivered
                 /\ rpc' = "internal" /\ rhold' = b
        /\ SendInternal /\ ~innerDropped
              => /\ internalQ' = Append(internalQ, rhold)
                 /\ rpc' = "frame"
                 /\ handlers' = handlers /\ calls' = calls /\ delivered' = delivered ]_vars

\* C14 witness: the bytes of a frame that is not JSON sit in the internal
\* channel, the reader is ready for the next frame, and a request still waits.
C14_Witness ==
    /\ internalQ = << RawBody >>
    /\ rlast.act = "unexpected"
    /\ rpc = "frame"
    /\ \E c \in Calls : calls[c].pc = "waiting" /\ calls[c].slot = "empty" /\ HoldsSlot(c)


----------------------------------------------------------------------------
(* Netstring framing.  A byte string is a sequence of runs [b, n]: n times  *)
(* the byte b, no run empty and no two neighbours of the same byte, so that *)
(* strings of 4194304 bytes can be written down and compared.               *)

Run(b, n) == [b |-> b, n |-> n]

RECURSIVE Norm(_)
\* the canonical form of a sequence of runs
Norm(s) ==
    IF s = << >> THEN << >>
    ELSE LET r == Norm(Tail(s))
             h == s[1]
         IN  IF h.n = 0 THEN r
             ELSE IF r # << >> /\ r[1].b = h.b
                  THEN << Run(h.b, h.n + r[1].n) >> \o Tail(r)
                  ELSE << h >> \o r

RECURSIVE BLen(_)
\* Vec::len, slice::len
BLen(s) == IF s = << >> THEN 0 ELSE s[1].n + BLen(Tail(s))

RECURSIVE Take(_, _)
\* &s[..k], for k <= len
Take(s, k) ==
    IF k = 0 \/ s = << >> THEN << >>
    ELSE IF s[1].n >= k THEN << Run(s[1].b, k) >>
    ELSE << s[1] >> \o Take(Tail(s), k - s[1].n)

RECURSIVE Drop(_, _)
\* &s[k..], for k <= len
Drop(s, k) ==
    IF k = 0 \/ s = << >> THEN s
    ELSE IF s[1].n > k THEN << Run(s[1].b, s[1].n - k) >> \o Tail(s)
    ELSE Drop(Tail(s), k - s[1].n)

\* extend_from_slice, push
Cat(s, t) == Norm(s \o t)

RECURSIVE Find(_, _)
\* 1-based position of the first byte b in s, 0 when there is none
Find(s, b) ==
    IF s = << >> THEN 0
    ELSE IF s[1].b = b THEN 1
    ELSE LET r == Find(Tail(s), b) IN IF r = 0 THEN 0 ELSE s[1].n + r

DigitChars == << "0", "1", "2", "3", "4", "5", "6", "7", "8", "9" >>

RECURSIVE Decimal(_)
\* usize::to_string().as_bytes()
Decimal(n) ==
    IF n < 10 THEN << Run(DigitChars[n + 1], 1) >>
    ELSE Cat(Decimal(n \div 10), << Run(DigitChars[(n % 10) + 1], 1) >>)

ParseFailed == -1

RECURSIVE ParseDigits(_, _)
ParseDigits(s, acc) ==
    IF s = << >> THEN acc
    ELSE IF \A i \in 1..10 : DigitChars[i] # s[1].b THEN ParseFailed
    ELSE ParseDigits(Drop(s, 1),
                     10 * acc + ((CHOOSE i \in 1..10 : DigitChars[i] = s[1].b) - 1))

\* String::from_utf8_lossy(..).parse::<usize>(): one leading '+' is accepted,
\* then at least one decimal digit and nothing but decimal digits; Err otherwise
ParseUsize(s) ==
    IF s = << >> THEN ParseFailed
    ELSE IF s[1].b = "+"
         THEN IF Drop(s, 1) = << >> THEN ParseFailed ELSE ParseDigits(Drop(s, 1), 0)
         ELSE ParseDigits(s, 0)


\* the netstring a writer task builds in bytes before write_all: the decimal
\* length, ':', the message, ','
Encode(b) ==
    Cat(Cat(Cat(Decimal(BLen(b)), << Run(":", 1) >>), b), << Run(",", 1) >>)

\* the messages handed to a writer task: short ones over bytes that matter to the
\* framing, and long ones around the maximum
ShortBytes == {"a", ":", ",", "7"}

ShortMessages ==
    UNION {{Norm([i \in 1..n |-> Run(f[i], 1)]) : f \in [1..n -> ShortBytes]}
           : n \in 0..MaxShortLen}

LongMessages ==
    {<< Run("a", n) >> : n \in {12, NS_PAYLOAD_MAX_LEN - 1, NS_PAYLOAD_MAX_LEN,
                                NS_PAYLOAD_MAX_LEN + 1}}

Lanes == {"payload", "control"}

\* a writer task frames b and writes it into the pipe of the lane
NsWrite(lane, b) ==
    /\ nsPc = "idle"
    /\ nsLane' = lane
    /\ nsIn' = b
    /\ nsPipe' = Encode(b)
    /\ nsPc' = "written"
    /\ UNCHANGED << nsLen, nsOut, notFraming >>

\* read_until(b':', ..): the bytes up to and including the first ':'
ReadUntilCount(pipe) == Find(pipe, ":")

\* the bytes handed to parse::<usize>().  Payload lane: len_bytes starts empty
\* and holds what read_until appended, of which the last byte is left out.
\* Control lane: read_until appends to bytes, which starts as 4194304 zero bytes;
\* pop() takes the ':' off the end and the first read_bytes bytes are parsed.
LengthText(lane, pipe) ==
    LET read_bytes == ReadUntilCount(pipe)
    IN  IF lane = "payload"
        THEN Take(Take(pipe, read_bytes), read_bytes - 1)
        ELSE LET bytes  == Cat(<< Run("NUL", NS_PAYLOAD_MAX_LEN) >>, Take(pipe, read_bytes))
                 popped == Take(bytes, BLen(bytes) - 1)
             IN  Take(popped, read_bytes)

\* bytes.len() at the slice &mut bytes[..(length + 1)]
BufferLen(lane, pipe) ==
    IF lane = "payload" THEN NS_PAYLOAD_MAX_LEN
    ELSE NS_PAYLOAD_MAX_LEN + ReadUntilCount(pipe) - 1

\* the reader task up to read_exact: read_until, parse().unwrap(), the warning
\* for a length above the maximum (payload lane only), and the slice of bytes
\* that read_exact is to fill; unwrap and the slice panic
NsReadLength ==
    /\ nsPc = "written"
    /\ ReadUntilCount(nsPipe) > 0
    /\ LET length == ParseUsize(LengthText(nsLane, nsPipe))
       IN  /\ nsPipe' = Drop(nsPipe, ReadUntilCount(nsPipe))
           /\ IF length = ParseFailed \/ length + 1 > BufferLen(nsLane, nsPipe)
              THEN /\ nsOut' = [status |-> "panicked", body |-> << >>]
                   /\ nsPc' = "done"
                   /\ UNCHANGED nsLen
              ELSE /\ nsLen' = length
                   /\ nsPc' = "body"
                   /\ UNCHANGED nsOut
    /\ UNCHANGED << nsLane, nsIn, notFraming >>

\* read_exact(&mut bytes[..(length + 1)]) and what the task takes as the message:
\* bytes[..length] on the payload lane, bytes[1..length] behind the command byte
\* bytes[0] on the control lane, where the future of sender.send is dropped
\* without being awaited
NsReadBody ==
    /\ nsPc = "body"
    /\ BLen(nsPipe) >= nsLen + 1
    /\ nsPipe' = Drop(nsPipe, nsLen + 1)
    /\ nsOut' = IF nsLane = "payload"
                THEN [status |-> "frame", body |-> Take(nsPipe, nsLen)]
                ELSE [status |-> "unsent", body |-> Drop(Take(nsPipe, nsLen), 1)]
    /\ nsPc' = "done"
    /\ UNCHANGED << nsLane, nsIn, nsLen, notFraming >>

FramingNext ==
    \/ \E lane \in Lanes, b \in ShortMessages \cup LongMessages : NsWrite(lane, b)
    \/ NsReadLength
    \/ NsReadBody

FramingSpec == Init /\ [][FramingNext]_vars

\* C15: a frame that announces more than 4194304 bytes is refused: the reader
\* reports Oversize, has read none of the body bytes (the body and its ',' are
\* still in the pipe) and hands nothing on.
C15_OversizeInboundRefused ==
    nsPc \in {"body", "done"} /\ BLen(nsIn) > NS_PAYLOAD_MAX_LEN
        => /\ nsPc = "done"
           /\ nsOut = [status |-> "Oversize", body |-> << >>]
           /\ nsPipe = Cat(nsIn, << Run(",", 1) >>)

\* C16: for every message b of at most 4194304 bytes the writer task emits
\* decimal(len(b)), ':', b, ',' (digits + 1 + len(b) + 1 bytes) and the reader
\* task fed with these bytes gets exactly b as the frame body.
C16_FramingRoundTrip ==
    BLen(nsIn) <= NS_PAYLOAD_MAX_LEN
        => /\ nsPc = "written"
                => /\ nsPipe = Norm(Decimal(BLen(nsIn)) \o << Run(":", 1) >> \o nsIn
                                      \o << Run(",", 1) >>)
                   /\ BLen(nsPipe) = BLen(Decimal(BLen(nsIn))) + 1 + BLen(nsIn) + 1
           /\ nsPc = "done" => nsOut = [status |-> "frame", body |-> nsIn]


----------------------------------------------------------------------------
(* spawn_with_worker_channels: the four pipes and the pre_exec hook that    *)
(* runs in the forked child.                                                *)

\* the pipe ends in the order the four create_pipe() calls return them
PipeEnds == << "producer_fd_read", "producer_fd_write",
               "consumer_fd_read", "consumer_fd_write",
               "producer_payload_fd_read", "producer_payload_fd_write",
               "consumer_payload_fd_read", "consumer_payload_fd_write" >>

FirstFd == 3
\* the descriptor numbers pipe() may return (0, 1 and 2 are the standard streams)
FdNumbers == FirstFd..(FirstFd + Len(PipeEnds) - 1 + MaxSpareFds)

\* the ends the child does not use, in the order the hook closes them
UnusedInChild == << "producer_fd_write", "consumer_fd_read",
                    "producer_payload_fd_write", "consumer_payload_fd_read" >>

\* the ends the child uses and the descriptor number each is duplicated to, in
\* the order of the hook
ChildTargets == << [end |-> "producer_fd_read", fd |-> 3],
                   [end |-> "consumer_fd_write", fd |-> 4],
                   [end |-> "producer_payload_fd_read", fd |-> 5],
                   [end |-> "consumer_payload_fd_write", fd |-> 6] >>

\* the pipes created so far
PipesMade == Cardinality(DOMAIN fdOf) \div 2

\* unistd::pipe() succeeds with two free descriptor numbers
CreatePipe(r, w) ==
    /\ spawnPc = "pipes"
    /\ PipesMade < 4
    /\ r # w
    /\ \A e \in DOMAIN fdOf : fdOf[e] # r /\ fdOf[e] # w
    /\ fdOf' = [e \in DOMAIN fdOf \cup {PipeEnds[2 * PipesMade + 1],
                                        PipeEnds[2 * PipesMade + 2]} |->
                   IF e \in DOMAIN fdOf THEN fdOf[e]
                   ELSE IF e = PipeEnds[2 * PipesMade + 1] THEN r ELSE w]
    /\ parentFds' = parentFds \cup {PipeEnds[2 * PipesMade + 1],
                                    PipeEnds[2 * PipesMade + 2]}
    /\ UNCHANGED << childFds, spawnPc, spawnResult, notSpawning >>

\* unistd::pipe() returns an error (EMFILE, ENFILE): create_pipe unwraps it
CreatePipeFails ==
    /\ spawnPc = "pipes"
    /\ PipesMade < 4
    /\ spawnPc' = "ended"
    /\ spawnResult' = "panicked"
    /\ UNCHANGED << fdOf, childFds, parentFds, notSpawning >>

\* command.spawn() forks: the child starts with a copy of the descriptor table
Fork ==
    /\ spawnPc = "pipes"
    /\ PipesMade = 4
    /\ childFds' = [n \in FdNumbers |->
                       IF \E e \in DOMAIN fdOf : fdOf[e] = n
                       THEN CHOOSE e \in DOMAIN fdOf : fdOf[e] = n
                       ELSE "closed"]
    /\ spawnPc' = "close"
    /\ UNCHANGED << fdOf, spawnResult, parentFds, notSpawning >>

\* command.spawn() fails to fork: the `?` hands the io::Error to the caller; the
\* four files made with from_raw_fd are dropped on the way out, which closes
\* their descriptors, and the RawFd values of the other four ends are just
\* integers
ForkFails ==
    /\ spawnPc = "pipes"
    /\ PipesMade = 4
    /\ spawnPc' = "ended"
    /\ spawnResult' = "Err"
    /\ parentFds' = parentFds \ {UnusedInChild[i] : i \in 1..4}
    /\ UNCHANGED << fdOf, childFds, notSpawning >>

\* the hook closes the four ends the child does not use
HookCloseUnused ==
    /\ spawnPc = "close"
    /\ IF \A i \in 1..4 : childFds[fdOf[UnusedInChild[i]]] # "closed"
       THEN /\ childFds' = [n \in FdNumbers |->
                               IF \E i \in 1..4 : fdOf[UnusedInChild[i]] = n
                               THEN "closed" ELSE childFds[n]]
            /\ spawnPc' = "dup1"
       ELSE /\ spawnPc' = "childPanicked"
            /\ UNCHANGED childFds
    /\ UNCHANGED << fdOf, spawnResult, parentFds, notSpawning >>

\* if fd != target { dup2(fd, target).unwrap(); close(fd).unwrap(); } for the
\* k-th end the child uses; fd is the number pipe() returned, whatever that
\* descriptor refers to by now
HookDup(k) ==
    /\ spawnPc = << "dup1", "dup2", "dup3", "dup4" >>[k]
    /\ LET fd     == fdOf[ChildTargets[k].end]
           target == ChildTargets[k].fd
           next   == << "dup2", "dup3", "dup4", "exec" >>[k]
       IN  IF fd = target
           THEN /\ spawnPc' = next
                /\ UNCHANGED childFds
           ELSE IF childFds[fd] = "closed"
           THEN /\ spawnPc' = "childPanicked"
                /\ UNCHANGED childFds
           ELSE /\ childFds' = [childFds EXCEPT ![target] = childFds[fd],
                                                ![fd] = "closed"]
                /\ spawnPc' = next
    /\ UNCHANGED << fdOf, spawnResult, parentFds, notSpawning >>

\* dup2 or close returns an error in the child (EINTR, EIO): the unwrap panics
\* inside the hook; what command.spawn() then reports in the host is decided
\* by the standard library, not by this source
HookDupFails(k) ==
    /\ spawnPc = << "dup1", "dup2", "dup3", "dup4" >>[k]
    /\ fdOf[ChildTargets[k].end] # ChildTargets[k].fd
    /\ spawnPc' = "childPanicked"
    /\ UNCHANGED << fdOf, childFds, spawnResult, parentFds, notSpawning >>

\* the hook returned Ok(()), the worker is executed, and command.spawn() returns
\* Ok(child) in the host, which closes the four ends the child uses and builds
\* the two channel pairs
SpawnReturns ==
    /\ spawnPc = "exec"
    /\ spawnPc' = "ended"
    /\ spawnResult' = "Ok"
    /\ parentFds' = parentFds \ {ChildTargets[k].end : k \in 1..4}
    /\ UNCHANGED << fdOf, childFds, notSpawning >>

SpawnNext ==
    \/ \E r \in FdNumbers, w \in FdNumbers : CreatePipe(r, w)
    \/ CreatePipeFails
    \/ Fork
    \/ ForkFails
    \/ HookCloseUnused
    \/ \E k \in 1..4 : HookDup(k)
    \/ \E k \in 1..4 : HookDupFails(k)
    \/ SpawnReturns

SpawnSpec == Init /\ [][SpawnNext]_vars

\* C17: whatever distinct descriptor numbers the eight pipe ends got, when the
\* hook is through FD 3 is the read end of the host->worker control pipe, FD 4
\* the write end of the worker->host control pipe, FD 5 the read end of the
\* host->worker payload pipe, FD 6 the write end of the worker->host payload
\* pipe, and every other descriptor of the pipes is closed.
C17_ChildDescriptors ==
    spawnPc = "exec"
        => /\ \A k \in 1..4 : childFds[ChildTargets[k].fd] = ChildTargets[k].end
           /\ \A n \in FdNumbers : n \notin {3, 4, 5, 6} => childFds[n] = "closed"

\* C18: when creating one of the pipes fails, spawn_with_worker_channels ends
\* by returning an error to its caller: the host does not panic, and no
\* channel has been created.
C18_PipeFailureReturnsError ==
    spawnPc = "ended" /\ PipesMade < 4 => spawnResult = "Err"


----------------------------------------------------------------------------
(* Cancellation.  The executor runs the spawned tasks and fires the timers  *)
(* of the futures that are still polled; nothing obliges the worker to      *)
(* answer or the caller to keep its future.                                 *)

Scheduling ==
    /\ WF_vars(\E c \in Calls : CheckSize(c))
    /\ WF_vars(\E c \in Calls : Enqueue(c))
    /\ WF_vars(\E c \in Calls : ReceiveResult(c))
    /\ WF_vars(\E c \in Calls : TimerExpire(c))
    /\ WF_vars(\E c \in Calls : TimeoutRemove(c))
    /\ WF_vars(WriterRecv)
    /\ WF_vars(WriteMessage)
    /\ WF_vars(WritePayload)

FairSpec == Init /\ [][Next]_vars /\ Scheduling

\* the future of request c was dropped after the enqueue and the entry of its id
\* is still in the pending map
DroppedPending(c) ==
    /\ calls[c].kind = "request" /\ calls[c].pc = "dropped"
    /\ calls[c].deadline > 0
    /\ HoldsSlot(c)

\* C19: a request whose future the caller dropped after the enqueue does not keep
\* its entry in the pending map for ever: the entry is removed by the response
\* or, when the worker never responds, at the deadline.
C19_DroppedRequestReclaimed ==
    \A c \in Calls : DroppedPending(c) ~> ~HoldsSlot(c)


----------------------------------------------------------------------------
(* Backpressure. *)

\* the messages accepted from callers and not yet fully written: those in the
\* queue and the one the writer task has taken and is writing
Unwritten == Len(queue) + (IF wpc \in {"message", "payload"} THEN 1 ELSE 0)

\* C20 as stated: at most one message is accepted from callers and not yet
\* fully written.
C20_AtMostOneUnwritten == Unwritten <= 1

\* C20: the queue never holds more than its single slot, so a caller is parked
\* at the enqueue step while the slot is taken; the writer task frees the slot
\* when it takes the message, before writing it, so at most two messages are
\* accepted and not yet fully written: one in the queue and one being written.
C20_SingleSlotQueue ==
    /\ Len(queue) <= QueueCap
    /\ Unwritten <= QueueCap + 1
    /\ \A c \in Calls : calls[c].pc = "sending" /\ ~SendClosed /\ Len(queue) = QueueCap
                            => ~ENABLED Enqueue(c)

\* the slot is taken by one caller's message while the writer task is in the
\* middle of writing the message of the other
C20_Witness ==
    /\ Len(queue) = QueueCap
    /\ wpc = "payload"
    /\ queue[1].call # wmsg.call


----------------------------------------------------------------------------
(* What a request resolves to.  The worker answers with several data values *)
(* and several reasons, in any order and for any id.                        *)

\* data of a success response: the field may be missing (Option<Value>)
Datas == {"absent", "{}", "[7]"}

Reasons == {"invalid interval", "not found"}

ResolveBodies ==
    {[SuccessBody(k) EXCEPT !.data = d] : k \in AllocatedIds \cup {StrayId}, d \in Datas}
    \* {"id":k,"accepted":false}
    \cup {[SuccessBody(k) EXCEPT !.accepted = "false", !.data = "absent"] :
              k \in AllocatedIds \cup {StrayId}}
    \cup {[ErrorBody(k) EXCEPT !.reason = r] : k \in AllocatedIds \cup {StrayId},
                                               r \in Reasons}

NextResolve ==
    \/ \E c \in Calls : Register(c, NS_PAYLOAD_MAX_LEN, NS_PAYLOAD_MAX_LEN)
    \/ \E c \in Calls : CheckSize(c)
    \/ \E c \in Calls : Enqueue(c)
    \/ \E c \in Calls : ReceiveResult(c)
    \/ \E c \in Calls : TimerExpire(c)
    \/ \E c \in Calls : TimeoutRemove(c)
    \/ \E c \in Calls : DropFuture(c)
    \/ \E n \in {1, 2} : Burst(n)
    \/ WriterRecv
    \/ WriteMessage
    \/ WritePayload
    \/ \E b \in ResolveBodies : ReadFrame(b)

ResolveSpec == Init /\ [][NextResolve]_vars

\* C21: a response frame with id k is handed, as Ok(its data) or as
\* Err(ResponseError { reason }) with its reason, to the request registered under
\* k and changes no other request; what was handed over stays as it is until the
\* request returns, and the request returns exactly it: Ok(data) for a success
\* response, Response { reason } for an error response.
C21_ResolvesToOwnResponse ==
    [][ /\ \A b \in ResolveBodies : ReadFrame(b) =>
              /\ \A c \in Calls : calls'[c] # calls[c] =>
                    /\ calls[c].id = b.id
                    /\ calls[c].pc \in {"registered", "sending", "waiting", "expired"}
                    /\ calls'[c] = [calls[c] EXCEPT
                                       !.slot = IF b.accepted # "absent" THEN "ok" ELSE "err",
                                       !.value = IF b.accepted # "absent" THEN b.data
                                                 ELSE b.reason]
              /\ \A c \in Calls : /\ HoldsSlot(c) /\ calls[c].id = b.id
                                  /\ ReceiverAlive(calls[c]) /\ calls[c].slot = "empty"
                                  => calls'[c].slot \in {"ok", "err"}
        /\ \A c \in Calls :
              calls[c].slot \in {"ok", "err"} /\ calls'[c] # calls[c] =>
                 \/ calls'[c].pc = "dropped"
                 \/ /\ calls'[c].pc = "done"
                    /\ calls'[c].result \in {"Ok", "Response"} =>
                          /\ calls'[c].value = calls[c].value
                          /\ calls'[c].result =
                                 IF calls[c].slot = "ok" THEN "Ok" ELSE "Response"
                 \/ /\ calls'[c].pc \notin {"done", "dropped"}
                    /\ calls'[c].slot = calls[c].slot
                    /\ calls'[c].value = calls[c].value
        /\ \A c \in Calls :
              calls'[c].result \in {"Ok", "Response"} /\ calls[c].result = "none"
              /\ calls[c].kind = "request"
                 => calls[c].slot = IF calls'[c].result = "Ok" THEN "ok" ELSE "err"
      ]_vars

\* C21 witness: the two requests were answered in the reverse order, one with
\* data and one with a reason, and each returned what the response with its id
\* carried.
C21_Witness ==
    /\ calls[1].result = "Response" /\ calls[1].value = "not found"
    /\ calls[2].result = "Ok" /\ calls[2].value = "[7]"
    /\ calls[1].id # calls[2].id
    /\ rlast.act = "matched" /\ rlast.id = calls[1].id


----------------------------------------------------------------------------
(* The reader tasks fed with what a worker may write: well-formed frames,   *)
(* length prefixes that are no decimal numbers, wrong terminators, and the  *)
(* end of the stream.                                                       *)

\* the byte string of a tuple of bytes
ByteString(t) == Norm([i \in 1..Len(t) |-> Run(t[i], 1)])

\* what the worker writes in front of the ':'
LengthTexts == {<< "1" >>, << "2" >>, << "+", "1" >>, << "a" >>, << "1", "a" >>,
                << >>, << "-", "1" >>, << " ", "1" >>}

Terminators == {",", ";"}

\* length text, ':', one to MaxBodyLen bytes, one more byte
InboundStreams ==
    {Cat(Cat(Cat(ByteString(t), << Run(":", 1) >>), << Run("b", n) >>), << Run(e, 1) >>)
        : t \in LengthTexts, n \in 1..MaxBodyLen, e \in Terminators}

\* the worker writes w into the pipe of the lane
NsFeed(lane, w) ==
    /\ nsPc = "idle"
    /\ nsLane' = lane
    /\ nsIn' = w
    /\ nsPipe' = w
    /\ nsPc' = "written"
    /\ UNCHANGED << nsLen, nsOut, notFraming >>

\* the worker closes its end of the pipe at a frame boundary and read_until
\* returns 0: the payload lane breaks out of the loop; the control lane has no
\* such test, pops a byte off bytes and parses &bytes[..0]
NsEof(lane) ==
    /\ nsPipe = << >>
    /\ \/ nsPc = "idle" /\ nsLane' = lane
       \/ /\ nsPc = "done" /\ nsOut.status \in {"frame", "unsent"}
          /\ lane = nsLane
          /\ UNCHANGED nsLane
    /\ nsOut' = IF lane = "payload" THEN [status |-> "eof", body |-> << >>]
                ELSE IF ParseUsize(LengthText(lane, nsPipe)) = ParseFailed
                THEN [status |-> "panicked", body |-> << >>]
                ELSE [status |-> "reading", body |-> << >>]
    /\ nsPc' = "ended"
    /\ UNCHANGED << nsIn, nsPipe, nsLen, notFraming >>

InboundNext ==
    \/ \E lane \in Lanes, w \in InboundStreams : NsFeed(lane, w)
    \/ \E lane \in Lanes : NsEof(lane)
    \/ NsReadLength
    \/ NsReadBody

InboundSpec == Init /\ [][InboundNext]_vars

\* C22: when the worker closes the pipe at a frame boundary the reader task of
\* either lane ends cleanly: it does not panic and hands on nothing.
C22_EofEndsReaderCleanly ==
    nsPc = "ended" => nsOut = [status |-> "eof", body |-> << >>]


\* the length prefix of the bytes the worker wrote
PrefixOf(w) == Take(w, Find(w, ":") - 1)

\* at least one byte and nothing but ASCII decimal digits
PureDecimal(t) ==
    /\ t # << >>
    /\ \A i \in 1..Len(t) : \E d \in 1..10 : DigitChars[d] = t[i].b

\* C23: when the length prefix is not a pure ASCII-decimal number the reader
\* task, once it has read the prefix, has reported InvalidDigits as a value: it
\* has not panicked and it has not gone on to read a body.
C23_InvalidDigitsReported ==
    nsPc \in {"body", "done"} /\ ~PureDecimal(PrefixOf(nsIn))
        => nsPc = "done" /\ nsOut = [status |-> "InvalidDigits", body |-> << >>]

\* the byte of w at the 1-based position i
ByteAt(w, i) == Take(Drop(w, i - 1), 1)[1].b

\* C24: a frame body is handed on only when the byte behind the body is ',';
\* for any other byte the reader reports BadTerminator.
C24_TerminatorChecked ==
    nsPc = "done" /\ nsOut.status \in {"frame", "unsent"}
        => ByteAt(nsIn, Find(nsIn, ":") + nsLen + 1) = ","


----------------------------------------------------------------------------
(* WebRtcMessage.  A String holds Unicode scalar values, Bytes hold bytes;  *)
(* Bytes::from(String) is the UTF-8 encoding and String::from_utf8 decodes  *)
(* and validates it.                                                        *)

\* ' ', 'a' and U+00E9, which takes two bytes in UTF-8
MsgChars == {32, 97, 233}

\* bytes of these characters, and bytes that are no UTF-8 on their own
MsgBytes == {0, 32, 97, 169, 195}

SeqsUpTo(S, n) == UNION {[1..k -> S] : k \in 0..n}

RECURSIVE Utf8(_)
\* String::into_bytes for scalar values below U+0800
Utf8(str) ==
    IF str = << >> THEN << >>
    ELSE (IF str[1] < 128 THEN << str[1] >>
          ELSE << 192 + (str[1] \div 64), 128 + (str[1] % 64) >>) \o Utf8(Tail(str))

Utf8Invalid == << -1 >>

RECURSIVE from_utf8(_)
\* String::from_utf8 for sequences of one and two bytes: Utf8Invalid for a
\* continuation byte out of place, a lead byte without its continuation byte, an
\* overlong form (lead 192, 193) and leads this model has no characters for
from_utf8(bytes) ==
    IF bytes = << >> THEN << >>
    ELSE IF bytes[1] < 128
         THEN LET r == from_utf8(Tail(bytes))
              IN  IF r = Utf8Invalid THEN Utf8Invalid ELSE << bytes[1] >> \o r
    ELSE IF /\ bytes[1] \in 194..223
            /\ Len(bytes) >= 2
            /\ bytes[2] \in 128..191
         THEN LET r == from_utf8(Tail(Tail(bytes)))
              IN  IF r = Utf8Invalid THEN Utf8Invalid
                  ELSE << (bytes[1] - 192) * 64 + (bytes[2] - 128) >> \o r
    ELSE Utf8Invalid

WebRtcMessages ==
    {[variant |-> "String", data |-> t] : t \in SeqsUpTo(MsgChars, MaxMsgLen)}
    \cup {[variant |-> "Binary", data |-> b] : b \in SeqsUpTo(MsgBytes, MaxMsgLen)}
    \cup {[variant |-> "EmptyString", data |-> << >>],
          [variant |-> "EmptyBinary", data |-> << >>]}

into_ppid_and_payload(msg) ==
    CASE msg.variant = "String" -> [ppid |-> 51, payload |-> Utf8(msg.data)]
      [] msg.variant = "Binary" -> [ppid |-> 53, payload |-> msg.data]
      [] msg.variant = "EmptyString" -> [ppid |-> 56, payload |-> << 32 >>]
      [] msg.variant = "EmptyBinary" -> [ppid |-> 57, payload |-> << 0 >>]

\* a decoder that takes the payload of the two empty kinds for content
WebRtcMessage_new_keeps_payload(ppid, payload) ==
    CASE ppid \in {51, 56} ->
            IF from_utf8(payload) = Utf8Invalid
            THEN [variant |-> "panic", data |-> << >>]
            ELSE [variant |-> "String", data |-> from_utf8(payload)]
      [] ppid \in {53, 57} -> [variant |-> "Binary", data |-> payload]
      [] OTHER -> [variant |-> "panic", data |-> << >>]

\* WebRtcMessage::new: unwrap of from_utf8 and panic!("Bad ppid {}") end in a panic
WebRtcMessage_new(ppid, payload) ==
    CASE ppid = 51 ->
            IF from_utf8(payload) = Utf8Invalid
            THEN [variant |-> "panic", data |-> << >>]
            ELSE [variant |-> "String", data |-> from_utf8(payload)]
      [] ppid = 53 -> [variant |-> "Binary", data |-> payload]
      [] ppid = 56 -> [variant |-> "EmptyString", data |-> << >>]
      [] ppid = 57 -> [variant |-> "EmptyBinary", data |-> << >>]
      [] OTHER -> [variant |-> "panic", data |-> << >>]

\* the SCTP payload protocol identifiers a worker may send
Ppids == 50..58

\* a data producer sends msg
WmEncode(msg) ==
    /\ purePc = "idle"
    /\ pureIn' = msg
    /\ pureOut' = into_ppid_and_payload(msg)
    /\ purePc' = "encoded"
    /\ UNCHANGED notValues

\* the pair is turned back into a message
WmDecode ==
    /\ purePc = "encoded"
    /\ pureOut' = WebRtcMessage_new(pureOut.ppid, pureOut.payload)
    /\ purePc' = "decoded"
    /\ UNCHANGED << pureIn, notValues >>

\* a data consumer receives a payload with its ppid from the worker
WmReceive(ppid, payload) ==
    /\ purePc = "idle"
    /\ pureIn' = [ppid |-> ppid, payload |-> payload]
    /\ pureOut' = WebRtcMessage_new(ppid, payload)
    /\ purePc' = "received"
    /\ UNCHANGED notValues

WebRtcNext ==
    \/ \E msg \in WebRtcMessages : WmEncode(msg)
    \/ WmDecode
    \/ \E ppid \in Ppids, payload \in SeqsUpTo(MsgBytes, MaxMsgLen) : WmReceive(ppid, payload)

WebRtcSpec == Init /\ [][WebRtcNext]_vars

\* C25: into_ppid_and_payload gives (51, UTF-8 bytes) for a String, (53, bytes)
\* for a Binary, (56, one byte 0x20) for EmptyString and (57, one byte 0x00) for
\* EmptyBinary, and WebRtcMessage::new of that pair is the message again.
C25_PpidPayloadRoundTrip ==
    /\ purePc = "encoded" =>
         /\ pureIn.variant = "String" =>
               /\ pureOut.ppid = 51
               /\ Len(pureOut.payload) =
                     Len(pureIn.data) + Cardinality({i \in DOMAIN pureIn.data :
                                                        pureIn.data[i] >= 128})
               /\ pureOut.payload = Utf8(pureIn.data)
         /\ pureIn.variant = "Binary" => pureOut = [ppid |-> 53, payload |-> pureIn.data]
         /\ pureIn.variant = "EmptyString" => pureOut = [ppid |-> 56, payload |-> << 32 >>]
         /\ pureIn.variant = "EmptyBinary" => pureOut = [ppid |-> 57, payload |-> << 0 >>]
    /\ purePc = "decoded" => pureOut = pureIn

\* C25 witness: a string with a two-byte character has made the round trip
\* through three payload bytes.
C25_Witness ==
    /\ purePc = "decoded"
    /\ pureIn = [variant |-> "String", data |-> << 233, 97 >>]
    /\ pureOut.variant = "String" /\ Len(pureOut.data) = 2

\* C26: WebRtcMessage::new with a ppid other than 51, 53, 56 and 57 returns a
\* BadPpid error value and does not panic.
C26_BadPpidIsAnError ==
    purePc = "received" /\ pureIn.ppid \notin {51, 53, 56, 57}
        => pureOut = [variant |-> "BadPpid", data |-> << >>]


----------------------------------------------------------------------------
(* Subscriptions: callers subscribe and drop their handles while the reader *)
(* task dispatches the notifications of the worker.                         *)

TargetIds == {"R1", "R2"}

\* PayloadChannel::subscribe_to_notifications
Subscribe(t) ==
    /\ Len(subs) < MaxSubs
    /\ ~innerDropped
    /\ subs' = add(subs, t, Len(delivered))
    /\ UNCHANGED << channel, apart >>

\* the caller drops the SubscriptionHandler it got from subscribe_to_notifications
DropHandle(i) ==
    /\ i \in DOMAIN subs
    /\ subs[i].alive
    /\ subs' = remove(subs, i, Len(delivered))
    /\ UNCHANGED << channel, apart >>

\* the payload frames behind a notification: some bytes, other bytes, no bytes
SubPayloads == {RawBody, [RawBody EXCEPT !.text = "world"], NoBody}

NextSubs ==
    \/ \E t \in TargetIds : Subscribe(t)
    \/ \E i \in 1..MaxSubs : DropHandle(i)
    \/ \E t \in TargetIds : ReadFrame(NoteBody(t))
    \/ \E b \in SubPayloads : ReadPayloadFrame(b)

SubsSpec == Init /\ [][NextSubs]_vars

\* the notifications dispatched for target t after the first a and up to the
\* b-th, in dispatch order
DispatchedFor(t, a, b) ==
    SelectSeq(SubSeq(delivered, a + 1, b), LAMBDA d : d.target = t)

\* C27: the callback of a subscription has been invoked with exactly the
\* notifications that were dispatched for its target id while its handle was
\* alive, in dispatch order: all of them up to now while the handle is held, and
\* none of those dispatched after the handle was dropped.
C27_SubscriptionLifecycle ==
    \A i \in DOMAIN subs :
        subs[i].got = DispatchedFor(subs[i].target, subs[i].since,
                                    IF subs[i].alive THEN Len(delivered)
                                    ELSE subs[i].until)

\* C27 witness: a callback got the first notification of its target, its handle
\* was dropped, and the second notification of that target passed it by, while
\* a callback added later for the same target got only the second.
C27_Witness ==
    /\ Len(subs) = 2 /\ Len(delivered) = 2
    /\ subs[1].target = subs[2].target
    /\ delivered[1].target = subs[1].target /\ delivered[2].target = subs[1].target
    /\ ~subs[1].alive /\ subs[1].got = << delivered[1] >>
    /\ subs[2].alive /\ subs[2].got = << delivered[2] >>


----------------------------------------------------------------------------
(* Scalability modes.  A string is a sequence of characters; the pattern    *)
(* ^[LS]([1-9][0-9]?)T([1-9][0-9]?)(_KEY)? is matched at the start of the   *)
(* input, each optional part greedily, giving way when the rest fails.      *)

DecimalDigits == << "0", "1", "2", "3", "4", "5", "6", "7", "8", "9" >>

\* str::parse::<u8> of a captured group of decimal digits
ParseU8(t) ==
    LET val(c) == (CHOOSE i \in DOMAIN DecimalDigits : DecimalDigits[i] = c) - 1
    IN  IF Len(t) = 1 THEN val(t[1]) ELSE 10 * val(t[1]) + val(t[2])

\* Regex::captures: the three groups of the match, or none when nothing matches
regex_captures(s) ==
    LET at(i) == IF i \in DOMAIN s THEN s[i] ELSE "end"
        Digit == {DecimalDigits[i] : i \in DOMAIN DecimalDigits}
        NonZero == Digit \ {"0"}
        \* the lengths group 1 can take, the greedy one first
        tries == IF at(2) \notin NonZero THEN << >>
                 ELSE IF at(3) \in Digit THEN << 2, 1 >> ELSE << 1 >>
        \* those after which T and the first digit of group 2 follow
        fits == SelectSeq(tries, LAMBDA a : at(2 + a) = "T" /\ at(3 + a) \in NonZero)
        a == fits[1]
        b == IF at(4 + a) \in Digit THEN 2 ELSE 1
        rest == 3 + a + b
    IN  IF at(1) \notin {"L", "S"} \/ fits = << >>
        THEN [matched |-> FALSE]
        ELSE [matched |-> TRUE,
              group1 |-> SubSeq(s, 2, 1 + a),
              group2 |-> SubSeq(s, 3 + a, 2 + a + b),
              group3 |-> << at(rest), at(rest + 1), at(rest + 2), at(rest + 3) >>
                            = << "_", "K", "E", "Y" >>,
              end |-> IF << at(rest), at(rest + 1), at(rest + 2), at(rest + 3) >>
                            = << "_", "K", "E", "Y" >>
                      THEN rest + 4 ELSE rest]

\* a parser whose pattern ends with $: nothing may follow the match
ScalabilityMode_from_str_whole(s) ==
    LET captures == regex_captures(s)
    IN  IF captures.matched /\ captures.end = Len(s) + 1
        THEN [variant |-> "Ok",
              spatial_layers |-> ParseU8(captures.group1),
              temporal_layers |-> ParseU8(captures.group2),
              ksvc |-> captures.group3]
        ELSE [variant |-> "InvalidInput"]

\* ScalabilityMode::from_str
ScalabilityMode_from_str(s) ==
    LET captures == regex_captures(s)
    IN  IF captures.matched
        THEN [variant |-> "Ok",
              spatial_layers |-> ParseU8(captures.group1),
              temporal_layers |-> ParseU8(captures.group2),
              ksvc |-> captures.group3]
        ELSE [variant |-> "InvalidInput"]

\* the strings parsed: every string of up to MaxModeLen of these characters,
\* alone or followed by one of the suffixes
ModeInputs ==
    {h \o t : h \in SeqsUpTo({"L", "S", "T", "0", "2", "x"}, MaxModeLen),
              t \in {<< >>, << "_", "K", "E", "Y" >>, << "_", "K", "E" >>,
                     << "_", "K", "E", "Y", "_", "S" >>}}

\* a caller parses a string
ParseScalabilityMode(s) ==
    /\ purePc = "idle"
    /\ pureIn' = s
    /\ pureOut' = ScalabilityMode_from_str(s)
    /\ purePc' = "mode"
    /\ UNCHANGED notValues

\* nothing is parsed after the one string of a run
ModeNext == purePc = "idle" /\ \E s \in ModeInputs : ParseScalabilityMode(s)

ModeSpec == Init /\ [][ModeNext]_vars

\* C28: from_str is Ok exactly when the input starts with L or S, a count of one
\* or two digits without a leading zero, T and another such count; the result
\* carries the two counts, each in 1..99, the temporal one with its second digit
\* when there is one, and ksvc exactly when _KEY comes next; whatever follows is
\* ignored.  Every other input gives InvalidInput.
C28_FromStrGrammar ==
    purePc = "mode" =>
        LET s == pureIn
            NonZero == {"1", "2", "3", "4", "5", "6", "7", "8", "9"}
            IsCount(t) == /\ t[1] \in NonZero
                          /\ \A i \in DOMAIN t : t[i] \in NonZero \cup {"0"}
            Shapes == {ab \in (1..2) \X (1..2) :
                          /\ Len(s) >= 2 + ab[1] + ab[2]
                          /\ s[1] \in {"L", "S"}
                          /\ IsCount(SubSeq(s, 2, 1 + ab[1]))
                          /\ s[2 + ab[1]] = "T"
                          /\ IsCount(SubSeq(s, 3 + ab[1], 2 + ab[1] + ab[2]))}
        IN  IF Shapes = {}
            THEN pureOut = [variant |-> "InvalidInput"]
            ELSE LET ab == CHOOSE x \in Shapes : \A y \in Shapes : y[2] <= x[2]
                     used == 2 + ab[1] + ab[2]
                 IN  /\ pureOut.variant = "Ok"
                     /\ pureOut.spatial_layers \in 1..99
                     /\ pureOut.temporal_layers \in 1..99
                     /\ pureOut.spatial_layers = ParseU8(SubSeq(s, 2, 1 + ab[1]))
                     /\ pureOut.temporal_layers =
                           ParseU8(SubSeq(s, 3 + ab[1], used))
                     /\ pureOut.ksvc =
                           (/\ Len(s) >= used + 4
                            /\ SubSeq(s, used + 1, used + 4) = << "_", "K", "E", "Y" >>)

\* C28 witness: L20T22_KEY_S was parsed as 20 spatial and 22 temporal layers
\* with ksvc, the two characters after _KEY ignored.
C28_Witness ==
    /\ purePc = "mode"
    /\ pureIn = << "L", "2", "0", "T", "2", "2", "_", "K", "E", "Y", "_", "S" >>
    /\ pureOut = [variant |-> "Ok", spatial_layers |-> 20, temporal_layers |-> 22,
                  ksvc |-> TRUE]


----------------------------------------------------------------------------
(* DTLS fingerprints.  A fingerprint is its algorithm and the bytes of its  *)
(* value; its serialized form is the algorithm name and a string, kept here *)
(* as the bytes of its UTF-8 text since the deserializer measures and cuts  *)
(* the string by bytes.                                                     *)

\* the bytes of the value of each variant of DtlsFingerprint
FingerprintLen ==
    [a \in {"sha-1", "sha-224", "sha-256", "sha-384", "sha-512"} |->
        CASE a = "sha-1" -> 20 [] a = "sha-224" -> 28 [] a = "sha-256" -> 32
          [] a = "sha-384" -> 48 [] a = "sha-512" -> 64]

\* a serializer that writes {:02x}
DtlsFingerprint_serialize_lower(fp) ==
    LET hex(h) == IF h < 10 THEN 48 + h ELSE 87 + h
    IN  [algorithm |-> fp.algorithm,
         value |-> [k \in 1..(3 * FingerprintLen[fp.algorithm] - 1) |->
                       CASE (k - 1) % 3 = 0 -> hex(fp.value[(k - 1) \div 3 + 1] \div 16)
                         [] (k - 1) % 3 = 1 -> hex(fp.value[(k - 1) \div 3 + 1] % 16)
                         [] OTHER -> 58]]

\* Serialize for DtlsFingerprint: every byte as {:02X}, the bytes joined by ":"
DtlsFingerprint_serialize(fp) ==
    LET hex(h) == IF h < 10 THEN 48 + h ELSE 55 + h
    IN  [algorithm |-> fp.algorithm,
         value |-> [k \in 1..(3 * FingerprintLen[fp.algorithm] - 1) |->
                       CASE (k - 1) % 3 = 0 -> hex(fp.value[(k - 1) \div 3 + 1] \div 16)
                         [] (k - 1) % 3 = 1 -> hex(fp.value[(k - 1) \div 3 + 1] % 16)
                         [] OTHER -> 58]]

\* parse_as_bytes: byte i of the output is u8::from_str_radix of the two bytes
\* of the input at 3i, and the third is skipped.  Cutting a str elsewhere than
\* between two characters panics; from_str_radix takes one + before the
\* digits, and digits of either case.
parse_as_bytes(input, n) ==
    LET digit(c) == IF c \in 48..57 THEN c - 48
                    ELSE IF c \in 65..70 THEN c - 55
                    ELSE IF c \in 97..102 THEN c - 87 ELSE -1
        from_str_radix(t) ==
            IF t[1] = 43
            THEN digit(t[2])
            ELSE IF digit(t[1]) = -1 \/ digit(t[2]) = -1 THEN -1
                 ELSE 16 * digit(t[1]) + digit(t[2])
        is_char_boundary(k) == k = 0 \/ k = Len(input) \/ input[k + 1] \notin 128..191
        splits(i) == ~is_char_boundary(3 * (i - 1)) \/ ~is_char_boundary(3 * (i - 1) + 2)
        byte(i) == from_str_radix(<< input[3 * (i - 1) + 1], input[3 * (i - 1) + 2] >>)
        stops == {i \in 1..n : splits(i) \/ byte(i) = -1}
        first == CHOOSE i \in stops : \A j \in stops : i <= j
    IN  IF stops = {} THEN [variant |-> "Ok", value |-> [i \in 1..n |-> byte(i)]]
        ELSE IF splits(first) THEN [variant |-> "panic"]
        ELSE [variant |-> "Err", error |-> "Failed to parse value as series of hex bytes"]

\* DtlsFingerprintVisitor::visit_map, for a map with both fields
DtlsFingerprint_deserialize(doc) ==
    IF doc.algorithm \notin DOMAIN FingerprintLen
    THEN [variant |-> "Err", error |-> "unknown variant"]
    ELSE IF Len(doc.value) # 3 * FingerprintLen[doc.algorithm] - 1
    THEN [variant |-> "Err", error |-> "Value doesn't have correct length"]
    ELSE LET value_result == parse_as_bytes(doc.value, FingerprintLen[doc.algorithm])
         IN  IF value_result.variant = "Ok"
             THEN [variant |-> "Ok",
                   fingerprint |-> [algorithm |-> doc.algorithm,
                                    value |-> value_result.value]]
             ELSE value_result

\* a fingerprint to serialize: byte x at place j among bytes fill
OneByteApart(a, fill, j, x) ==
    [algorithm |-> a, value |-> [i \in 1..FingerprintLen[a] |-> IF i = j THEN x ELSE fill]]

\* a map to deserialize: algorithm name a, supported or not, and the string of
\* a fingerprint of algorithm b with the k bytes at p replaced by r
EditedDoc(a, b, p, k, r) ==
    LET base == DtlsFingerprint_serialize(OneByteApart(b, 27, 0, 27)).value
    IN  [algorithm |-> a,
         value |-> SubSeq(base, 1, p - 1) \o r \o SubSeq(base, p + k, Len(base))]

\* what replaces the bytes: nothing, "+", "a", "G", "-", "0", a two-byte character
Replacements == {<< >>, << 43 >>, << 97 >>, << 71 >>, << 45 >>, << 48 >>, << 195, 169 >>}

\* a fingerprint is serialized
FpSerialize(fp) ==
    /\ pureIn' = fp
    /\ pureOut' = DtlsFingerprint_serialize(fp)
    /\ purePc' = "serialized"
    /\ UNCHANGED notValues

\* a map with an algorithm and a value is deserialized
FpDeserialize(doc) ==
    /\ pureIn' = doc
    /\ pureOut' = DtlsFingerprint_deserialize(doc)
    /\ purePc' = "deserialized"
    /\ UNCHANGED notValues

\* one fingerprint or one map in a run
DtlsNext ==
    \/ /\ purePc = "idle"
       /\ \E a \in DOMAIN FingerprintLen, fill \in {0, 171}, x \in {0, 9, 160, 255} :
             \E j \in 1..FingerprintLen[a] : FpSerialize(OneByteApart(a, fill, j, x))
    \/ /\ purePc = "idle"
       /\ \E a \in DOMAIN FingerprintLen \cup {"sha-200", "SHA-1"},
             b \in DOMAIN FingerprintLen, k \in 0..MaxEditLen, r \in Replacements :
             \E p \in 1..(3 * FingerprintLen[b] - k) : FpDeserialize(EditedDoc(a, b, p, k, r))

DtlsSpec == Init /\ [][DtlsNext]_vars

\* C29: the serialized form of a fingerprint of any of the five algorithms
\* deserializes to that fingerprint, and the fingerprint parsed from an
\* upper-case colon-separated hex string of the algorithm's length serializes
\* to that string.
C29_FingerprintRoundTrip ==
    LET UpperHex == (48..57) \cup (65..70)
        Canonical(doc) ==
            /\ doc.algorithm \in {"sha-1", "sha-224", "sha-256", "sha-384", "sha-512"}
            /\ Len(doc.value) = 3 * FingerprintLen[doc.algorithm] - 1
            /\ \A k \in DOMAIN doc.value :
                  IF k % 3 = 0 THEN doc.value[k] = 58 ELSE doc.value[k] \in UpperHex
    IN  /\ purePc = "serialized" =>
              /\ Canonical(pureOut)
              /\ DtlsFingerprint_deserialize(pureOut)
                    = [variant |-> "Ok", fingerprint |-> pureIn]
        /\ (purePc = "deserialized" /\ Canonical(pureIn)) =>
              /\ pureOut.variant = "Ok"
              /\ DtlsFingerprint_serialize(pureOut.fingerprint) = pureIn

\* C29 witness: a sha-256 string with the groups 1B and 0B was parsed into 32
\* bytes, the second of them eleven.
C29_Witness ==
    /\ purePc = "deserialized"
    /\ pureIn.algorithm = "sha-256"
    /\ SubSeq(pureIn.value, 1, 6) = << 49, 66, 58, 48, 66, 58 >>
    /\ pureOut.variant = "Ok"
    /\ pureOut.fingerprint.value[1] = 27 /\ pureOut.fingerprint.value[2] = 11
    /\ Len(pureOut.fingerprint.value) = 32

\* C30: deserializing gives an error, and no value, when the algorithm is not
\* one of the five names, when the value is not 3n - 1 characters long for the
\* n bytes of the algorithm, or when one of its n two-character groups is not
\* two hexadecimal digits.
C30_DeserializeErrors ==
    LET Hex == (48..57) \cup (65..70) \cup (97..102)
        chars(t) == Cardinality({k \in DOMAIN t : t[k] \notin 128..191})
        doc == pureIn
        n == FingerprintLen[doc.algorithm]
    IN  (/\ purePc = "deserialized"
         /\ \/ doc.algorithm \notin {"sha-1", "sha-224", "sha-256", "sha-384", "sha-512"}
            \/ chars(doc.value) # 3 * n - 1
            \/ \E i \in 1..n : \/ doc.value[3 * i - 2] \notin Hex
                               \/ doc.value[3 * i - 1] \notin Hex)
        => pureOut.variant = "Err"


----------------------------------------------------------------------------
(* The control lane and the largest frames.                                 *)

\* C31: for a well-formed frame on the control lane the reader task hands one
\* message to its receiver, carrying the bytes of that frame: the command byte
\* decides the kind and the bytes after it are the message.
C31_ControlReaderEmitsEachFrame ==
    nsLane = "control" /\ nsPc = "done" /\ BLen(nsIn) >= 1
        => nsOut = [status |-> "frame", body |-> Drop(nsIn, 1)]

\* C33: on the payload lane a frame that announces at most 4194304 bytes, and
\* one of exactly 4194304 bytes too, is read whole with its terminator and
\* handed on as it is; the reader task does not fail on it.
C33_MaxLengthFrameAccepted ==
    nsLane = "payload" /\ nsPc \in {"body", "done"} /\ BLen(nsIn) <= NS_PAYLOAD_MAX_LEN
        => /\ nsOut.status # "panicked"
           /\ nsPc = "done" => /\ nsOut.status = "frame"
                               /\ BLen(nsOut.body) = BLen(nsIn)
                               /\ nsPipe = << >>

\* longest body the control lane's classification is applied to
MaxControlLen == 3

\* '{', 'D', 'W', 'E', 'X', 'd', and the two bytes of U+00E9, each of which is
\* no UTF-8 on its own
ControlBytes == {123, 68, 87, 69, 88, 100, 195, 169}

\* String::from_utf8_unchecked: the String holds the bytes it was given; for
\* bytes that are no UTF-8 the behaviour is undefined and any value may result
from_utf8_unchecked(data) ==
    IF from_utf8(data) # Utf8Invalid THEN {data} ELSE {data, Utf8Invalid}

\* Mutant: the log letters are matched without regard to case
channels_deserialize_message_any_case(command, data) ==
    IF command = 123 THEN {[kind |-> "Json", text |-> t] : t \in from_utf8_unchecked(data)}
    ELSE IF command \in {68, 100}
         THEN {[kind |-> "Debug", text |-> t] : t \in from_utf8_unchecked(data)}
    ELSE IF command = 87 THEN {[kind |-> "Warn", text |-> t] : t \in from_utf8_unchecked(data)}
    ELSE IF command = 69 THEN {[kind |-> "Error", text |-> t] : t \in from_utf8_unchecked(data)}
    ELSE IF command = 88 THEN {[kind |-> "Dump", text |-> t] : t \in from_utf8_unchecked(data)}
    ELSE {[kind |-> "Unknown", command |-> command, data |-> data]}

\* deserialize_message of the control lane: the messages it may return
channels_deserialize_message(command, data) ==
    IF command = 123 THEN {[kind |-> "Json", text |-> t] : t \in from_utf8_unchecked(data)}
    ELSE IF command = 68 THEN {[kind |-> "Debug", text |-> t] : t \in from_utf8_unchecked(data)}
    ELSE IF command = 87 THEN {[kind |-> "Warn", text |-> t] : t \in from_utf8_unchecked(data)}
    ELSE IF command = 69 THEN {[kind |-> "Error", text |-> t] : t \in from_utf8_unchecked(data)}
    ELSE IF command = 88 THEN {[kind |-> "Dump", text |-> t] : t \in from_utf8_unchecked(data)}
    ELSE {[kind |-> "Unknown", command |-> command, data |-> data]}

\* The statement that builds the message of a frame whose length prefix said
\* Len(body): bytes holds the body and the ',' behind it; bytes[0] is the
\* command and bytes[1..length] the data, a range that does not exist for
\* length 0
ClassifyFrame(body) ==
    /\ purePc = "idle"
    /\ pureIn' = body
    /\ LET bytes == body \o << 44 >>
           length == Len(body)
       IN  IF length < 1
           THEN pureOut' = [kind |-> "panicked"]
           ELSE pureOut' \in channels_deserialize_message(bytes[1], SubSeq(bytes, 2, length))
    /\ purePc' = "classified"
    /\ UNCHANGED notValues

ControlNext ==
    purePc = "idle" /\ \E k \in 0..MaxControlLen : \E body \in [1..k -> ControlBytes] :
                            ClassifyFrame(body)

ControlSpec == Init /\ [][ControlNext]_vars

\* The kind each classifying byte stands for
CommandKind == [c \in {123, 68, 87, 69, 88} |->
                   CASE c = 123 -> "Json" [] c = 68 -> "Debug" [] c = 87 -> "Warn"
                     [] c = 69 -> "Error" [] c = 88 -> "Dump"]

\* C32: the first byte of a body alone decides the kind of message: '{' a Json
\* message, 'D', 'W', 'E' and 'X' a Debug, Warn, Error and Dump log whose text
\* is the bytes after the first one, any other byte an Unknown message that
\* carries the byte and the bytes after it.  The text is UTF-8, as the wire
\* format has it.
C32_ClassifiedByFirstByte ==
    purePc = "classified" /\ Len(pureIn) >= 1 =>
        LET command == pureIn[1]
            rest == Tail(pureIn)
        IN  IF command \in DOMAIN CommandKind
            THEN from_utf8(rest) # Utf8Invalid =>
                    pureOut = [kind |-> CommandKind[command], text |-> rest]
            ELSE pureOut = [kind |-> "Unknown", command |-> command, data |-> rest]

C32_Witness ==
    /\ purePc = "classified"
    /\ pureIn = << 88, 195, 169 >>
    /\ pureOut = [kind |-> "Dump", text |-> << 195, 169 >>]

----------------------------------------------------------------------------
(* Responses on the payload lane.                                           *)

\* C34: a response frame stands alone.  Dispatching a success or an error
\* response leaves the reader at the start of a record and holds nothing, and
\* the frame the reader takes next is decoded as a record of its own; a frame is
\* consumed as a payload only behind a notification.
C34_ResponseHasNoPayloadFrame ==
    [][/\ \A b \in FrameBodies :
             ReadFrame(b) /\ deserialize_message(b) \in {"ResponseSuccess", "ResponseError"}
                 => /\ rpc' = "frame"
                    /\ rhold' = NoBody
                    /\ rlast'.act \in {"matched", "unmatched"}
                    /\ delivered' = delivered /\ internalQ' = internalQ
       /\ rlast.act \in {"matched", "unmatched"} /\ rlast' # rlast
             => /\ \E b \in FrameBodies : ReadFrame(b)
                /\ rlast'.act \in {"matched", "unmatched", "notification", "unexpected"}
       /\ (\E b \in FrameBodies : ReadPayloadFrame(b)) => rlast.act = "notification"
      ]_vars

\* a success response was dispatched to its request and the bytes that came
\* next, no JSON, were decoded as a record and are on their way to the sink of
\* unexpected data; no notification went before
C34_Witness ==
    /\ \E c \in Calls : calls[c].slot = "ok"
    /\ delivered = << >>
    /\ rlast.act = "unexpected"
    /\ rpc = "internal"
    /\ rhold = RawBody

----------------------------------------------------------------------------
(* A worker that stops reading its pipe.  The pipe fills up and write_all   *)
(* of the writer task does not complete; nothing obliges the worker to      *)
(* answer either.  Notifications of callers other than the ones followed    *)
(* here go through the same queue.                                          *)

\* notifications made by other callers in one behaviour
MaxOthers == 2

\* the messages of other callers: queued, taken by the writer task, written
OtherMessages ==
    Len(SelectSeq(queue, LAMBDA q : q.call = 0))
    + (IF wpc = "message" /\ wmsg.call = 0 THEN 1 ELSE 0)
    + Len(SelectSeq(wire, LAMBDA f : f.call = 0 /\ f.part = "message"))

\* notify_internal of another caller, whose message passes the length checks:
\* the enqueue completes when the queue has room
OtherNotify ==
    /\ OtherMessages < MaxOthers
    /\ ~SendClosed
    /\ Len(queue) < QueueCap
    /\ queue' = Append(queue, [call |-> 0, kind |-> "notify"])
    /\ UNCHANGED << next_id, handlers, calls, wpc, wmsg, wire, rpc, rhold, rlast,
                    delivered, internalQ, innerDropped, elsewhere >>

StalledNext ==
    \/ \E c \in Calls, m \in Lengths, p \in Lengths : Register(c, m, p)
    \/ \E c \in Calls : CheckSize(c)
    \/ \E c \in Calls : Enqueue(c)
    \/ \E c \in Calls : ReceiveResult(c)
    \/ \E c \in Calls : TimerExpire(c)
    \/ \E c \in Calls : TimeoutRemove(c)
    \/ OtherNotify
    \/ WriterRecv
    \/ WriteMessage
    \/ WritePayload
    \/ \E b \in ResponseBodies : ReadFrame(b)

\* the executor polls every call that can go on, fires the timers that were
\* started and runs the writer task up to its next write; whether a write
\* completes, and whether a response comes, is up to the worker
StalledScheduling ==
    /\ \A c \in Calls : WF_vars(CheckSize(c))
    /\ \A c \in Calls : WF_vars(Enqueue(c))
    /\ \A c \in Calls : WF_vars(ReceiveResult(c))
    /\ \A c \in Calls : WF_vars(TimerExpire(c))
    /\ \A c \in Calls : WF_vars(TimeoutRemove(c))
    /\ WF_vars(WriterRecv)

StalledSpec == Init /\ [][StalledNext]_vars /\ StalledScheduling

\* C35: every call of request returns, with the response, a Response error,
\* TimedOut or ChannelClosed (or a length error), whatever the worker does: also
\* when it stops reading its pipe and never answers, and also while the call is
\* still waiting to enqueue its message.
C35_RequestAlwaysReturns ==
    \A c \in Calls : calls[c].kind = "request" ~> calls[c].pc = "done"

----------------------------------------------------------------------------
(* The response of a request against its timer.                             *)

\* the response of request c is in its one-shot and its timer has fired
Raced(c) ==
    /\ calls[c].kind = "request"
    /\ calls[c].pc = "expired"
    /\ calls[c].slot \in {"ok", "err"}

\* C36: whichever way the response of a request and the firing of its timer
\* interleave, the request returns once, with the response or with TimedOut, and
\* keeps that outcome; its entry is out of the pending map from the moment the
\* response is matched or the timer branch removes it, and the id is in the map
\* again only once a later request was registered under it; and in none of
\* these states is the reader task kept from taking the next response.
C36_ResponseTimerRace ==
    /\ [](\A c \in Calls :
             /\ calls[c].result \in {"Ok", "Response", "TimedOut"}
                   => calls[c].pc = "done" /\ ~HoldsSlot(c)
             /\ Raced(c) => /\ ENABLED ReceiveResult(c)
                            /\ ENABLED TimeoutRemove(c)
                            /\ ~HoldsSlot(c)
             /\ calls[c].pc \in {"waiting", "expired"} /\ rpc = "frame"
                   => \A b \in ResponseBodies : ENABLED ReadFrame(b))
    /\ [][\A c \in Calls :
             /\ calls[c].result # "none" => calls'[c] = calls[c]
             /\ ReceiveResult(c) /\ calls[c].slot \in {"ok", "err"}
                   => /\ calls'[c].pc = "done"
                      /\ calls'[c].result = (IF calls[c].slot = "ok" THEN "Ok" ELSE "Response")
                      /\ calls'[c].value = calls[c].value
                      /\ handlers' = handlers
             /\ TimeoutRemove(c)
                   => /\ calls'[c].pc = "done"
                      /\ calls'[c].result = "TimedOut"
                      /\ calls[c].id \notin DOMAIN handlers'
             /\ ( /\ \/ calls[c].result \in {"Ok", "Response", "TimedOut"}
                     \/ calls[c].slot \in {"ok", "err"}
                  /\ calls[c].id \notin DOMAIN handlers
                  /\ calls[c].id \in DOMAIN handlers' )
                   => /\ next_id = calls[c].id /\ next_id' # next_id
                      /\ handlers'[calls[c].id] # c
             /\ Raced(c) /\ calls'[c].pc = "done"
                   => /\ calls'[c].result \in {"Ok", "Response", "TimedOut"}
                      /\ ~HoldsSlot(c)'
          ]_vars

\* the timer of a request fired, its response came in before the timer branch
\* had the lock, and the request returned TimedOut: the id is out of the map and
\* the response was the last frame the reader matched
C36_Witness ==
    \E c \in Calls :
        /\ calls[c].result = "TimedOut"
        /\ calls[c].id \notin DOMAIN handlers
        /\ rlast = [act |-> "matched", id |-> calls[c].id]
        /\ \A d \in Calls : d # c => calls[d].pc = "idle"

----------------------------------------------------------------------------
(* The mutex of the request registry.  Every task is followed from one      *)
(* point where it takes, holds or drops the guard, or waits for something   *)
(* else, to the next.  A step is [from, to, wait, drop]: wait says what the *)
(* task waits for before the step ("mutex": lock().await, "other": a queue, *)
(* the pipe, a timer, a one-shot or a callback, "none": nothing), drop      *)
(* whether the guard goes out of scope with the step.                       *)

Edge(from, to, wait, drop) == [from |-> from, to |-> to, wait |-> wait, drop |-> drop]

\* Mutant: the guard taken for the insert lives to the end of the function body
RequesterFlowGuardToTheEnd ==
    { Edge("start", "inserting", "mutex", FALSE),
      Edge("inserting", "checking", "none", FALSE),
      Edge("checking", "refusing", "none", FALSE),
      Edge("refusing", "returned", "none", TRUE),
      Edge("checking", "sending", "none", FALSE),
      Edge("sending", "waiting", "other", FALSE),
      Edge("sending", "returned", "other", TRUE),
      Edge("waiting", "returned", "other", TRUE),
      Edge("waiting", "fired", "other", FALSE),
      Edge("fired", "expiring", "none", FALSE),
      Edge("fired", "returned", "other", TRUE),
      Edge("expiring", "returned", "none", TRUE),
      Edge("returned", "start", "none", FALSE) }

\* request_internal
RequesterFlow ==
    { Edge("start", "inserting", "mutex", FALSE),      \* lock().await of the block
      Edge("inserting", "checking", "none", TRUE),     \* len, insert; end of block
      Edge("checking", "refusing", "mutex", FALSE),    \* too long: lock().await
      Edge("refusing", "returned", "none", TRUE),      \* remove; end of statement
      Edge("checking", "sending", "none", FALSE),      \* both lengths fit
      Edge("sending", "waiting", "other", FALSE),      \* sender.send(..).await
      Edge("sending", "returned", "other", FALSE),     \* the send failed
      Edge("waiting", "returned", "other", FALSE),     \* result_receiver.await
      Edge("waiting", "fired", "other", FALSE),        \* Timer::after(..).await
      Edge("fired", "expiring", "mutex", FALSE),       \* timer branch: lock().await
      Edge("fired", "returned", "other", FALSE),       \* the response won meanwhile
      Edge("expiring", "returned", "none", TRUE),      \* remove; end of statement
      Edge("returned", "start", "none", FALSE) }       \* the next call

\* the reader task
ReaderFlow ==
    { Edge("reading", "response", "other", FALSE),     \* read_until, read_exact
      Edge("reading", "notification", "other", FALSE),
      Edge("reading", "internal", "other", FALSE),
      Edge("response", "taking", "mutex", FALSE),      \* lock().await
      Edge("taking", "reading", "none", TRUE),         \* remove; end of statement
      Edge("notification", "payload", "other", FALSE), \* the payload frame
      Edge("payload", "reading", "other", FALSE),      \* callbacks, or the sink
      Edge("internal", "reading", "other", FALSE) }    \* sender.send(..).await

Flow(t) == IF t = ReaderTask THEN ReaderFlow ELSE RequesterFlow

\* one step of task t along e
Step(t, e) ==
    /\ lpc[t] = e.from
    /\ e.wait = "mutex" => mutex = Free
    /\ mutex' = IF e.wait = "mutex" THEN t
                ELSE IF e.drop /\ mutex = t THEN Free
                ELSE mutex
    /\ lpc' = [lpc EXCEPT ![t] = e.to]
    /\ UNCHANGED notLocking

LockNext == \E t \in LockTasks : \E e \in Flow(t) : Step(t, e)

LockSpec == Init /\ [][LockNext]_vars

\* where a task is while it inserts (and reads the depth) or removes
Critical == {"inserting", "refusing", "expiring", "taking"}

\* where a task waits for a queue, the pipe, a timer, a one-shot or a callback
Waiting == {"sending", "waiting", "fired", "reading", "notification", "payload",
            "internal"}

\* C37: the guard of the registry mutex is held only over the insert with its
\* depth read and over the removes, never by a task that waits for an enqueue,
\* the pipe, a timer, a response or a callback; the holder can always go on and
\* its next step gives the guard back; so whenever a task wants the mutex, the
\* mutex is free or its holder is able to free it.
C37_MutexNeverHeldAcrossAwait ==
    /\ [](\A t \in LockTasks :
             /\ mutex = t => lpc[t] \in Critical /\ lpc[t] \notin Waiting
             /\ lpc[t] \in Critical => mutex = t
             /\ mutex = t => \E e \in Flow(t) : e.wait = "none" /\ ENABLED Step(t, e))
    /\ []((\E t \in LockTasks : \E e \in Flow(t) : lpc[t] = e.from /\ e.wait = "mutex")
             => \/ mutex = Free
                \/ \E h \in LockTasks : \E e \in Flow(h) : mutex = h /\ ENABLED Step(h, e))
    /\ [][\A t \in LockTasks :
             mutex = t => /\ lpc'[t] # lpc[t] => mutex' = Free
                          /\ mutex' # mutex => lpc'[t] # lpc[t]]_vars

\* the reader task holds the guard for its remove while the timer branch of one
\* requester waits for the mutex and the other requester waits for its enqueue
C37_Witness ==
    /\ mutex = ReaderTask /\ lpc[ReaderTask] = "taking"
    /\ \E a, b \in LockTasks \ {ReaderTask} : lpc[a] = "fired" /\ lpc[b] = "sending"

----------------------------------------------------------------------------
(* The sink of unexpected data.                                             *)

\* C38: the reader task is never held up at the sink of unexpected data: with
\* unexpected bytes in hand it can always hand them over and go on to the next
\* frame, whether or not anybody takes messages from the internal receiver, so
\* a response behind any number of unexpected frames reaches its request.
C38_SinkNeverBlocksReader ==
    rpc = "internal" => ENABLED SendInternal

----------------------------------------------------------------------------
(* Responses that were not accepted.                                        *)

\* C39: a frame completes a request as a success only when it carries an id and
\* accepted = true; a frame with an id and accepted = false completes no pending
\* request as a success.
C39_OnlyAcceptedIsSuccess ==
    [][\A b \in ResolveBodies :
          ReadFrame(b) /\ (\E c \in Calls : calls'[c].slot = "ok" /\ calls[c].slot # "ok")
              => b.id # NoId /\ b.accepted = "true"]_vars

----------------------------------------------------------------------------
(* The pipe ends left open in the host.                                     *)

\* C40: when spawn_with_worker_channels has returned, with Ok or with the error
\* of command.spawn(), the host has none of the ends the child uses open (the
\* read ends of the host->worker pipes, the write ends of the worker->host
\* pipes); after an error all eight ends are closed in the host.
C40_ParentHoldsNoChildEnd ==
    spawnPc = "ended" /\ spawnResult \in {"Ok", "Err"}
        => /\ \A k \in 1..4 : ChildTargets[k].end \notin parentFds
           /\ spawnResult = "Err" => parentFds = {}

====
